---- MODULE Spec2Model ----
(***************************************************************************)
(* View-state store of the survey map (src/hooks/use-url-state.ts).        *)
(*                                                                         *)
(* The address bar is the store: the fragment carries zoom/lat/lng, the    *)
(* query string carries the selected cell id.  Strings that the code       *)
(* takes apart (fragment, id value) are sequences of one-character         *)
(* strings, so that split, Number, trim and template formatting are        *)
(* computed character by character.  A JavaScript number is a decimal      *)
(* m / 10^e (exact for every literal and every product or quotient by      *)
(* 100000 that occurs here), or NaN, or +-Infinity, or undefined.          *)
(***************************************************************************)
EXTENDS Integers, Sequences, FiniteSets

VARIABLES hash, search, lastOp, arg, parsed, shared, source

\* the map component: map created, point set, loads in flight and their
\* outcome, the viewport, the result of the last lookup
VARIABLES build, mapReady, surveyPoints, previous, loading, isLoading, loadError,
          response, view, query, found, suggested

\* the search box and the page's search handler
VARIABLES searchQuery, suggestions, isSearching, searchError, pendingSearch, searchRet

\* the page: the map state it holds, the handle of the map component, its
\* initial effect, a render that is due, the cell id it last wrote; the move
\* the map is animating, the survey layer and the layers and highlight
\* markers on the map, the timers pending, the toast of the search error
VARIABLES currentMapState, handle, mounted, renderDue, lastCell, flight, surveyLayer, shown,
          highlights, timers, toast

urlVars == <<hash, search, arg, parsed, shared, source>>
mapVars ==
  <<build, mapReady, surveyPoints, previous, loading, isLoading, loadError,
    response, view, query, found, suggested>>
searchVars == <<searchQuery, suggestions, isSearching, searchError, pendingSearch, searchRet>>
pageVars ==
  <<currentMapState, handle, mounted, renderDue, lastCell, flight, surveyLayer, shown,
    highlights, timers, toast>>

vars == <<lastOp, urlVars, mapVars, searchVars, pageVars>>

----------------------------------------------------------------------------
(* Bounds of the exploration *)

\* longest value of the id query parameter in the URL the page is opened with
MaxIdLen == 2

----------------------------------------------------------------------------
(* JavaScript numbers *)

Undefined == [k |-> "undefined", m |-> 0, e |-> 0]
NaN == [k |-> "NaN", m |-> 0, e |-> 0]
Infinity(neg) == [k |-> "Infinity", m |-> IF neg THEN -1 ELSE 1, e |-> 0]

Pow10(n) == <<1, 10, 100, 1000, 10000, 100000, 1000000, 10000000>>[n + 1]

RECURSIVE Norm(_, _)
Norm(m, e) ==
  IF e > 0 /\ m % 10 = 0 THEN Norm(m \div 10, e - 1)
  ELSE [k |-> "finite", m |-> m, e |-> e]

\* the number m / 10^e
Dec(m, e) == Norm(m, e)
Whole(n) == Dec(n, 0)

isNaN(x) == x.k \in {"NaN", "undefined"}

\* x * 100000
TimesScale(x) ==
  IF x.k # "finite" THEN (IF x.k = "undefined" THEN NaN ELSE x)
  ELSE IF x.e >= 5 THEN Dec(x.m, x.e - 5)
  ELSE Dec(x.m * Pow10(5 - x.e), 0)

\* a decoder that scales by four decimal places instead of five
DivScaleShort(x) ==
  IF x.k # "finite" THEN (IF x.k = "undefined" THEN NaN ELSE x)
  ELSE Dec(x.m, x.e + 4)

\* x / 100000
DivScale(x) ==
  IF x.k # "finite" THEN (IF x.k = "undefined" THEN NaN ELSE x)
  ELSE Dec(x.m, x.e + 5)

\* Math.round: nearest integer, a tie goes towards +Infinity
MathRound(x) ==
  IF x.k # "finite" THEN (IF x.k = "undefined" THEN NaN ELSE x)
  ELSE Whole((2 * x.m + Pow10(x.e)) \div (2 * Pow10(x.e)))

----------------------------------------------------------------------------
(* JavaScript strings, as sequences of characters *)

Digits == <<"0", "1", "2", "3", "4", "5", "6", "7", "8", "9">>
IsDigit(c) == \E i \in 1..10 : Digits[i] = c
DigitVal(c) == (CHOOSE i \in 1..10 : Digits[i] = c) - 1

IsWhite(c) == c \in {" ", "\t", "\n"}

RECURSIVE TrimStart(_)
TrimStart(s) == IF s # <<>> /\ IsWhite(Head(s)) THEN TrimStart(Tail(s)) ELSE s

RECURSIVE TrimEnd(_)
TrimEnd(s) ==
  IF s # <<>> /\ IsWhite(s[Len(s)]) THEN TrimEnd(SubSeq(s, 1, Len(s) - 1)) ELSE s

\* String.prototype.trim
Trim(s) == TrimEnd(TrimStart(s))

\* String.prototype.includes, for a one-character needle
Includes(s, c) == \E i \in 1..Len(s) : s[i] = c

\* String.prototype.startsWith
StartsWith(s, p) == Len(s) >= Len(p) /\ SubSeq(s, 1, Len(p)) = p

\* String.prototype.substring(n)
Substring(s, n) == SubSeq(s, n + 1, Len(s))

\* String.prototype.split, for a one-character separator
RECURSIVE Split(_, _)
Split(s, sep) ==
  IF Includes(s, sep)
  THEN LET i == CHOOSE i \in 1..Len(s) : s[i] = sep /\ \A j \in 1..(i - 1) : s[j] # sep
       IN  <<SubSeq(s, 1, i - 1)>> \o Split(SubSeq(s, i + 1, Len(s)), sep)
  ELSE <<s>>

AllDigits(s) == \A i \in 1..Len(s) : IsDigit(s[i])

RECURSIVE DigitsVal(_)
DigitsVal(s) == IF s = <<>> THEN 0 ELSE 10 * DigitsVal(SubSeq(s, 1, Len(s) - 1)) + DigitVal(s[Len(s)])

INFINITY == <<"I", "n", "f", "i", "n", "i", "t", "y">>

\* Number(string): the StringToNumber conversion for decimal literals without
\* exponent (the empty and the blank string are 0, a signed Infinity is
\* infinite, everything else that is not a literal is NaN)
Number(str) ==
  LET s == Trim(str)
      signed == s # <<>> /\ Head(s) \in {"+", "-"}
      neg == s # <<>> /\ Head(s) = "-"
      body == IF signed THEN Tail(s) ELSE s
      parts == Split(body, ".")
      ip == parts[1]
      fp == IF Len(parts) = 2 THEN parts[2] ELSE <<>>
      literal == /\ Len(parts) <= 2
                 /\ AllDigits(ip) /\ AllDigits(fp)
                 /\ Len(ip) + Len(fp) > 0
      mag == DigitsVal(ip \o fp)
  IN  IF s = <<>> THEN Whole(0)
      ELSE IF body = INFINITY THEN Infinity(neg)
      ELSE IF literal THEN Dec(IF neg THEN -mag ELSE mag, Len(fp))
      ELSE NaN

RECURSIVE NatToString(_)
NatToString(n) ==
  IF n < 10 THEN <<Digits[n + 1]>> ELSE NatToString(n \div 10) \o <<Digits[(n % 10) + 1]>>

RECURSIVE ZeroPad(_, _)
ZeroPad(s, n) == IF Len(s) >= n THEN s ELSE ZeroPad(<<"0">> \o s, n)

Abs(n) == IF n < 0 THEN -n ELSE n

\* Number::toString, as a template literal `${x}` applies it
ToString(x) ==
  IF x.k = "undefined" THEN <<"u", "n", "d", "e", "f", "i", "n", "e", "d">>
  ELSE IF x.k = "NaN" THEN <<"N", "a", "N">>
  ELSE IF x.k = "Infinity" THEN (IF x.m < 0 THEN <<"-">> ELSE <<>>) \o INFINITY
  ELSE LET mag == Abs(x.m)
           sign == IF x.m < 0 THEN <<"-">> ELSE <<>>
       IN  IF x.e = 0 THEN sign \o NatToString(mag)
           ELSE sign \o NatToString(mag \div Pow10(x.e)) \o <<".">>
                     \o ZeroPad(NatToString(mag % Pow10(x.e)), x.e)

\* Number.prototype.toFixed(5): nearest multiple of 1e-5 of the magnitude, a
\* tie goes to the larger magnitude; the sign is printed in front
ToFixed5(x) ==
  LET mag == Abs(x.m)
      n == IF x.e <= 5 THEN mag * Pow10(5 - x.e)
           ELSE (2 * mag + Pow10(x.e - 5)) \div (2 * Pow10(x.e - 5))
  IN  (IF x.m < 0 THEN <<"-">> ELSE <<>>)
        \o NatToString(n \div 100000) \o <<".">> \o ZeroPad(NatToString(n % 100000), 5)

----------------------------------------------------------------------------
(* URLSearchParams: the decoded name/value pairs of the query, in order *)

NoString == [has |-> FALSE, s |-> <<>>]
Str(s) == [has |-> TRUE, s |-> s]

\* a string is truthy when it is defined and not empty
Truthy(v) == v.has /\ v.s # <<>>

\* URLSearchParams.get: the first value under the name, or null
Get(params, name) ==
  IF \E i \in 1..Len(params) : params[i].name = name
  THEN Str(params[CHOOSE i \in 1..Len(params) :
                    /\ params[i].name = name
                    /\ \A j \in 1..(i - 1) : params[j].name # name].value)
  ELSE NoString

\* URLSearchParams.delete: every pair under the name goes
RECURSIVE Delete(_, _)
Delete(params, name) ==
  IF params = <<>> THEN <<>>
  ELSE IF Head(params).name = name THEN Delete(Tail(params), name)
  ELSE <<Head(params)>> \o Delete(Tail(params), name)

\* URLSearchParams.set: the first pair under the name takes the value and the
\* other pairs under the name go; without such a pair one is appended
Set(params, name, value) ==
  IF \E i \in 1..Len(params) : params[i].name = name
  THEN LET i == CHOOSE i \in 1..Len(params) :
                  /\ params[i].name = name
                  /\ \A j \in 1..(i - 1) : params[j].name # name
       IN  SubSeq(params, 1, i - 1) \o <<[name |-> name, value |-> value]>>
             \o Delete(SubSeq(params, i + 1, Len(params)), name)
  ELSE Append(params, [name |-> name, value |-> value])

----------------------------------------------------------------------------
(* useUrlState *)

MAP_ == <<"m", "a", "p", "_">>

NoPosition == [zoom |-> Undefined, lat |-> Undefined, lng |-> Undefined]

\* the legacy branch is taken for a fragment with a slash
IsLegacyHash(h) == Includes(h, "/")

\* a branch test that forgets the prefix
AnyPrefix(h) == TRUE

\* the compact branch is taken for a fragment that starts with map_
IsCompactHash(h) == StartsWith(h, MAP_)

\* the old format zoom/lat/lng
parseLegacy(h) ==
  LET parts == Split(h, "/")
  IN  IF Len(parts) = 3
      THEN LET zoom == Number(parts[1])
               lat == Number(parts[2])
               lng == Number(parts[3])
           IN  IF ~isNaN(zoom) /\ ~isNaN(lat) /\ ~isNaN(lng)
               THEN [zoom |-> zoom, lat |-> lat, lng |-> lng]
               ELSE NoPosition
      ELSE NoPosition

\* the new format map_zoom_lat_lng, coordinates as integers
parseCompact(h) ==
  LET parts == Split(Substring(h, 4), "_")
  IN  IF Len(parts) = 3
      THEN LET zoom == Number(parts[1])
               lat == DivScale(Number(parts[2]))
               lng == DivScale(Number(parts[3]))
           IN  IF ~isNaN(zoom) /\ ~isNaN(lat) /\ ~isNaN(lng)
               THEN [zoom |-> zoom, lat |-> lat, lng |-> lng]
               ELSE NoPosition
      ELSE NoPosition

\* the position that parseUrlState reads from the fragment
parsePosition(h) ==
  IF h # <<>>
  THEN IF IsLegacyHash(h) THEN parseLegacy(h)
       ELSE IF IsCompactHash(h) THEN parseCompact(h)
       ELSE NoPosition
  ELSE NoPosition

\* the id parameter as it stands in the query
parseCellIdRaw(params) ==
  LET cellId == Get(params, "id")
  IN  IF Truthy(cellId) THEN cellId ELSE NoString

\* the cell id that parseUrlState reads from the query
parseCellId(params) ==
  LET cellId == Get(params, "id")
  IN  IF Truthy(cellId) THEN Str(Trim(cellId.s)) ELSE NoString

parseUrlState(h, params) ==
  LET pos == parsePosition(h)
  IN  [zoom |-> pos.zoom, lat |-> pos.lat, lng |-> pos.lng,
       cellId |-> parseCellId(params)]

\* an encoder that still writes the slash form
slashFragment(zoom, lat, lng) ==
  ToString(zoom) \o <<"/">> \o ToString(lat) \o <<"/">> \o ToString(lng)

\* the fragment of the current version: `map_${zoom}_${lat}_${lng}`
compactFragment(zoom, lat, lng) ==
  MAP_ \o ToString(zoom) \o <<"_">> \o ToString(lat) \o <<"_">> \o ToString(lng)

\* the fragment of the first version: `${zoom}/${lat.toFixed(5)}/${lng.toFixed(5)}`
legacyFragment(zoom, lat, lng) ==
  ToString(zoom) \o <<"/">> \o ToFixed5(lat) \o <<"/">> \o ToFixed5(lng)

\* Math.round(coordinate * 100000): the integer that the compact form stores
scaledInt(x) == MathRound(TimesScale(x))

\* updateUrlState rewrites the fragment when zoom, lat and lng are all given
\* and none of the rounded values is NaN
writesHash(newState) ==
  /\ newState.zoom # Undefined /\ newState.lat # Undefined /\ newState.lng # Undefined
  /\ ~isNaN(MathRound(newState.zoom))
  /\ ~isNaN(scaledInt(newState.lat))
  /\ ~isNaN(scaledInt(newState.lng))

\* an update that drops the fragment when no position is given
updateHashResetting(h, newState) ==
  IF writesHash(newState)
  THEN compactFragment(MathRound(newState.zoom), scaledInt(newState.lat), scaledInt(newState.lng))
  ELSE <<>>

updateHash(h, newState) ==
  IF writesHash(newState)
  THEN compactFragment(MathRound(newState.zoom), scaledInt(newState.lat), scaledInt(newState.lng))
  ELSE h

\* an update of the query that takes an absent cellId for an empty one
updateQueryClearing(params, newState) ==
  IF Truthy(newState.cellId) THEN Set(params, "id", newState.cellId.s)
  ELSE Delete(params, "id")

updateQuery(params, newState) ==
  IF newState.cellId.has
  THEN IF Truthy(newState.cellId) THEN Set(params, "id", newState.cellId.s)
       ELSE Delete(params, "id")
  ELSE params

\* the URL that updateUrlState hands to history.replaceState
updateUrlState(h, params, newState) ==
  [search |-> updateQuery(params, newState), hash |-> updateHash(h, newState)]

\* a share URL that starts from the whole href
hrefBase(h, params) == [search |-> params, hash |-> h]

\* new URL(origin + pathname): neither query nor fragment of the address bar
shareBase(h, params) == [search |-> <<>>, hash |-> <<>>]

getShareableUrl(h, params, state) ==
  LET url == shareBase(h, params)
      lat == scaledInt(state.lat)
      lng == scaledInt(state.lng)
  IN  [search |-> IF Truthy(state.cellId) THEN Set(url.search, "id", state.cellId.s)
                  ELSE url.search,
       hash |-> compactFragment(state.zoom, lat, lng)]

\* a clear that forgets the id parameter
clearHashOnly(h, params) == [search |-> params, hash |-> <<>>]

clearUrlState(h, params) == [search |-> Delete(params, "id"), hash |-> <<>>]

----------------------------------------------------------------------------
(* Inputs *)

\* fragments of the URL the page is opened with
SampleFragments == {
    <<>>,   \* no fragment
    <<"1", "5", "/", "4", "0", ".", "7", "1", "2", "8", "0", "/", "-", "7", "4", ".", "0", "0", "6", "0", "0">>,   \* 15/40.71280/-74.00600
    <<"m", "a", "p", "_", "1", "6", "_", "4", "0", "7", "1", "2", "8", "0", "_", "-", "7", "4", "0", "0", "6", "0", "0">>,   \* map_16_4071280_-7400600
    <<"g", "a", "r", "b", "a", "g", "e">>,   \* garbage
    <<"m", "a", "p", "_", "1", "_", "2">>,   \* map_1_2
    <<"1", "/", "2">>,   \* 1/2
    <<"m", "a", "p", "_", "1", "6", "_", "_">>,   \* map_16__
    <<"/", "/">>,   \* //
    <<"1", "5", "/", "I", "n", "f", "i", "n", "i", "t", "y", "/", "0">>,   \* 15/Infinity/0
    <<"m", "a", "p", "_", "1", "6", "_", "I", "n", "f", "i", "n", "i", "t", "y", "_", "0">>,   \* map_16_Infinity_0
    <<"m", "a", "p", "_", "x", "_", "1", "_", "2">>,   \* map_x_1_2
    <<"1", "5", "/", "a", "b", "c", "/", "1">>,   \* 15/abc/1
    <<"a", "b", "c", "_", "1", "_", "2", "_", "3">>,   \* abc_1_2_3
    <<"m", "a", "p", "_", "1", "_", "2", "_", "3", "_", "4">>,   \* map_1_2_3_4
    <<"1", "/", "2", "/", "3", "/", "4">>,   \* 1/2/3/4
    <<"0", "/", "0", "/", "0">>,   \* 0/0/0
    <<"m", "a", "p", "_", "0", "_", "0", "_", "0">>,   \* map_0_0_0
    <<"m", "a", "p", "_">>   \* map_
  }

\* the documented examples of the two grammars
LegacyExample ==
  <<"1", "5", "/", "4", "0", ".", "7", "1", "2", "8", "0", "/",
    "-", "7", "4", ".", "0", "0", "6", "0", "0">>
CompactExample ==
  <<"m", "a", "p", "_", "1", "6", "_", "4", "0", "7", "1", "2", "8", "0", "_",
    "-", "7", "4", "0", "0", "6", "0", "0">>

\* views: the corners of the domain, the documented example, coordinates whose
\* scaled value is a tie (-0.5, 1.5) or just off an integer, a zoom between
\* two levels
View(z, la, ln) == [zoom |-> z, lat |-> la, lng |-> ln]

Views ==
  {View(Whole(0), Whole(-90), Whole(-180)),
   View(Whole(22), Whole(90), Whole(180)),
   View(Whole(16), Dec(407128, 4), Dec(-74006, 3)),
   View(Whole(15), Dec(-5, 6), Dec(-74006004, 6)),
   View(Whole(15), Dec(15, 6), Whole(0)),
   View(Dec(155, 1), Dec(407128, 4), Dec(-74006, 3))}

\* views whose link was written by the first version of the hook
LegacyViews ==
  {View(Whole(15), Dec(407128, 4), Dec(-74006, 3)),
   View(Whole(15), Dec(-5, 6), Dec(-74006004, 6)),
   View(Whole(15), Dec(15, 6), Whole(0))}

IdAlphabet == {" ", "A"}
IdValues == UNION {[1..n -> IdAlphabet] : n \in 0..MaxIdLen}

A23 == <<"A", "2", "3">>

Param(name, value) == [name |-> name, value |-> value]

\* queries of the URL the page is opened with: every id value, and queries
\* with a foreign parameter or a repeated id
IdQueries == {<<>>} \cup {<<Param("id", v)>> : v \in IdValues}

MixedQueries ==
  {<<>>,
   <<Param("utm", <<"x">>), Param("id", A23)>>,
   <<Param("id", <<"A">>), Param("utm", <<"x">>), Param("id", <<"B">>)>>}

NoArg == [zoom |-> Undefined, lat |-> Undefined, lng |-> Undefined, cellId |-> NoString]

ArgCellIds == {NoString, Str(<<>>), Str(A23)}

\* arguments of updateUrlState: a whole position, part of one, or none
ArgPositions ==
  Views \cup {NoPosition,
              View(Whole(15), Undefined, Undefined),
              View(Whole(15), Dec(407128, 4), Undefined),
              View(Undefined, Dec(407128, 4), Dec(-74006, 3)),
              View(NaN, Dec(407128, 4), Dec(-74006, 3))}

UpdateArgs ==
  {[zoom |-> p.zoom, lat |-> p.lat, lng |-> p.lng, cellId |-> c] :
     p \in ArgPositions, c \in ArgCellIds}

\* arguments of getShareableUrl: a MapState, cellId optional
ShareStates ==
  {[zoom |-> p.zoom, lat |-> p.lat, lng |-> p.lng, cellId |-> c] :
     p \in Views, c \in ArgCellIds}

----------------------------------------------------------------------------
(* The page's use of the store *)

NoUrl == [search |-> <<>>, hash |-> <<>>]
NoSource == [kind |-> "foreign", zoom |-> Undefined, lat |-> Undefined, lng |-> Undefined]
Source(kind, v) == [kind |-> kind, zoom |-> v.zoom, lat |-> v.lat, lng |-> v.lng]

\* the components as they are mounted: no map yet, no points, nothing typed
InitialView == [by |-> "default", zoom |-> Whole(11), lat |-> Dec(247136, 4), lng |-> Dec(466753, 4)]
NoSearch == [active |-> FALSE, cellId |-> <<>>, found |-> FALSE, threw |-> FALSE]

NoError == [has |-> FALSE, s |-> ""]
NoResponse == [reached |-> FALSE, ok |-> FALSE, head |-> <<>>, json |-> "none", features |-> <<>>]

\* no call of the map handle yet
NoCall ==
  /\ query = <<>>
  /\ found = "none"
  /\ suggested = <<>>

MountMap ==
  /\ mapReady = FALSE
  /\ surveyPoints = <<>>
  /\ previous = <<>>
  /\ loading = 0
  /\ isLoading = TRUE
  /\ loadError = NoError
  /\ response = NoResponse
  /\ view = InitialView
  /\ NoCall

\* useState({ zoom: 4, lat: 39.8283, lng: -98.5795 })
InitialMapState == [zoom |-> Whole(4), lat |-> Dec(398283, 4), lng |-> Dec(-985795, 4)]

NoToast == [mounted |-> FALSE, isVisible |-> FALSE, shownFor |-> 0]
NoFlight ==
  [active |-> FALSE, by |-> "none", zoom |-> Undefined, lat |-> Undefined, lng |-> Undefined]

\* the page as it is rendered first: no effect has run, no layer, no timer
MountPage ==
  /\ currentMapState = InitialMapState
  /\ handle = FALSE
  /\ mounted = FALSE
  /\ renderDue = FALSE
  /\ lastCell = NoString
  /\ flight = NoFlight
  /\ surveyLayer = 0
  /\ shown = {}
  /\ highlights = {}
  /\ timers = {}
  /\ toast = NoToast

MountSearch ==
  /\ searchQuery = <<>>
  /\ suggestions = <<>>
  /\ isSearching = FALSE
  /\ searchError = NoString
  /\ pendingSearch = NoSearch
  /\ searchRet = "none"

\* The page is opened with some URL: a foreign or hand-written fragment, or a
\* link that the first version of the hook wrote for a view.
Init ==
  /\ build = "map-container"
  /\ MountMap
  /\ MountSearch
  /\ MountPage
  /\ \/ /\ hash \in SampleFragments
        /\ search \in MixedQueries
        /\ source = NoSource
     \/ /\ hash \in {<<>>, legacyFragment(Whole(15), Dec(407128, 4), Dec(-74006, 3))}
        /\ search \in IdQueries
        /\ source = NoSource
     \/ \E v \in LegacyViews :
          /\ hash = legacyFragment(v.zoom, v.lat, v.lng)
          /\ search \in MixedQueries
          /\ source = Source("legacy", v)
  /\ lastOp = "load"
  /\ arg = NoArg
  /\ parsed = NoArg
  /\ shared = NoUrl

\* arg keeps the argument of the latest updateUrlState or getShareableUrl
CallParseUrlState ==
  /\ parsed' = parseUrlState(hash, search)
  /\ lastOp' = "parseUrlState"
  /\ shared' = NoUrl
  /\ UNCHANGED <<hash, search, source, arg, mapVars, searchVars, pageVars>>

\* history.replaceState with the URL that updateUrlState builds
ReplaceState(newState) ==
  LET url == updateUrlState(hash, search, newState)
  IN  /\ hash' = url.hash
      /\ search' = url.search
      /\ source' = IF writesHash(newState) THEN Source("update", newState) ELSE source
      /\ arg' = newState
      /\ parsed' = NoArg
      /\ shared' = NoUrl

CallUpdateUrlState ==
  \E newState \in UpdateArgs :
    /\ ReplaceState(newState)
    /\ lastOp' = "updateUrlState"
    /\ UNCHANGED <<mapVars, searchVars, pageVars>>

CallGetShareableUrl ==
  \E state \in ShareStates :
    /\ shared' = getShareableUrl(hash, search, state)
    /\ lastOp' = "getShareableUrl"
    /\ arg' = state
    /\ parsed' = NoArg
    /\ UNCHANGED <<hash, search, source, mapVars, searchVars, pageVars>>

CallClearUrlState ==
  LET url == clearUrlState(hash, search)
  IN  /\ hash' = url.hash
      /\ search' = url.search
      /\ source' = NoSource
      /\ lastOp' = "clearUrlState"
      /\ arg' = NoArg
      /\ parsed' = NoArg
      /\ shared' = NoUrl
      /\ UNCHANGED <<mapVars, searchVars, pageVars>>

Next ==
  \/ CallParseUrlState
  \/ CallUpdateUrlState
  \/ CallGetShareableUrl
  \/ CallClearUrlState

Spec == Init /\ [][Next]_vars

----------------------------------------------------------------------------
(* The cell id in the query, written and read back *)

\* cell ids handed to updateUrlState, with and without surrounding blanks
CellIdArgs ==
  {<<>>, A23, <<"a", "1">>, <<" ", "A">>, <<"A", " ">>, <<" ">>, <<"A", " ", "B">>}

InitCellId ==
  /\ build = "map-container"
  /\ MountMap
  /\ MountSearch
  /\ MountPage
  /\ hash \in {<<>>, CompactExample}
  /\ search \in IdQueries \cup MixedQueries
  /\ source = NoSource
  /\ lastOp = "load"
  /\ arg = NoArg
  /\ parsed = NoArg
  /\ shared = NoUrl

CallUpdateCellId ==
  \E c \in CellIdArgs :
    /\ ReplaceState([NoArg EXCEPT !.cellId = Str(c)])
    /\ lastOp' = "updateUrlState"
    /\ UNCHANGED <<mapVars, searchVars, pageVars>>

NextCellId ==
  \/ CallUpdateCellId
  \/ CallParseUrlState

SpecCellId == InitCellId /\ [][NextCellId]_vars

----------------------------------------------------------------------------
(* Strings of the point index *)

UpperCase ==
  <<"A", "B", "C", "D", "E", "F", "G", "H", "I", "J", "K", "L", "M",
    "N", "O", "P", "Q", "R", "S", "T", "U", "V", "W", "X", "Y", "Z">>
LowerCase ==
  <<"a", "b", "c", "d", "e", "f", "g", "h", "i", "j", "k", "l", "m",
    "n", "o", "p", "q", "r", "s", "t", "u", "v", "w", "x", "y", "z">>

IsUpper(c) == \E i \in 1..26 : UpperCase[i] = c
IsLower(c) == \E i \in 1..26 : LowerCase[i] = c

\* String.prototype.toLowerCase
ToLowerCase(s) ==
  [i \in 1..Len(s) |->
     IF IsUpper(s[i]) THEN LowerCase[CHOOSE k \in 1..26 : UpperCase[k] = s[i]] ELSE s[i]]

\* String.prototype.includes with a string to look for
IncludesString(s, sub) ==
  \E i \in 0..(Len(s) - Len(sub)) : SubSeq(s, i + 1, i + Len(sub)) = sub

\* the UTF-16 code unit of a character
CodeUnit(c) ==
  IF c = " " THEN 32
  ELSE IF c = "\"" THEN 34
  ELSE IF IsDigit(c) THEN 48 + DigitVal(c)
  ELSE IF c = "<" THEN 60
  ELSE IF IsUpper(c) THEN 64 + (CHOOSE k \in 1..26 : UpperCase[k] = c)
  ELSE IF c = "_" THEN 95
  ELSE 96 + (CHOOSE k \in 1..26 : LowerCase[k] = c)

\* the order of Array.prototype.sort without a comparator: by code units
RECURSIVE Before(_, _)
Before(a, b) ==
  IF b = <<>> THEN FALSE
  ELSE IF a = <<>> THEN TRUE
  ELSE IF Head(a) = Head(b) THEN Before(Tail(a), Tail(b))
  ELSE CodeUnit(Head(a)) < CodeUnit(Head(b))

RECURSIVE Insert(_, _)
Insert(sorted, x) ==
  IF sorted = <<>> THEN <<x>>
  ELSE IF Before(x, Head(sorted)) THEN <<x>> \o sorted
  ELSE <<Head(sorted)>> \o Insert(Tail(sorted), x)

RECURSIVE Sort(_)
Sort(a) == IF a = <<>> THEN <<>> ELSE Insert(Sort(SubSeq(a, 1, Len(a) - 1)), a[Len(a)])

\* Array.prototype.slice(0, n)
Slice(a, n) == SubSeq(a, 1, IF Len(a) < n THEN Len(a) ELSE n)

----------------------------------------------------------------------------
(* The dataset and its loader *)

\* values of a coordinate other than numbers
JsString(numeric) == [k |-> "string", m |-> IF numeric THEN 1 ELSE 0, e |-> 0]
JsNull == [k |-> "null", m |-> 0, e |-> 0]

NumberIsFinite(v) == v.k = "finite"

\* the global isNaN, which converts its argument to a number first
isNaNCoerced(v) == v.k \in {"NaN", "undefined"} \/ (v.k = "string" /\ v.m = 0)

\* `Point_${i}` and `point_${i}`
PointName(i) == <<"P", "o", "i", "n", "t", "_">> \o NatToString(i)
PointId(i) == <<"p", "o", "i", "n", "t", "_">> \o NatToString(i)

\* cell_id ?? name ?? `Point_${i}`
cellNullish(f, i) ==
  IF f.cell_id.has THEN f.cell_id.s
  ELSE IF f.name.has THEN f.name.s
  ELSE PointName(i)

\* cell_id || name || `Point_${index}`
cellFalsy(f, i) ==
  IF Truthy(f.cell_id) THEN f.cell_id.s
  ELSE IF Truthy(f.name) THEN f.name.s
  ELSE PointName(i)

\* the type of the value that cell_id ?? ... or cell_id || ... yields: that of
\* the cell_id property where it is taken, a string otherwise
cellType(f, taken) == IF taken THEN f.cell_type ELSE "string"

\* Name ?? name ?? cell
displayName(f, cell) ==
  IF f.Name.has THEN f.Name
  ELSE IF f.name.has THEN f.name
  ELSE Str(cell)

Skipped == [throws |-> FALSE, points |-> <<>>]
Thrown == [throws |-> TRUE, points |-> <<>>]
Pushed(p) == [throws |-> FALSE, points |-> <<p>>]

\* const [lng, lat] = coordinates || []
destructured(c) ==
  IF c.shape = "array" THEN [lng |-> c.lng, lat |-> c.lat]
  ELSE [lng |-> Undefined, lat |-> Undefined]

\* the callback of forEach in map-container.tsx and in part_001
visitFeature(b, f, i) ==
  IF f.rec = "null" \/ f.geometry # "Point" THEN Skipped
  ELSE IF f.coordinates.shape = "scalar" THEN Thrown
  ELSE LET c == destructured(f.coordinates)
           cell == cellNullish(f, i)
       IN  IF NumberIsFinite(c.lat) /\ NumberIsFinite(c.lng)
           THEN Pushed([id |-> PointId(i), lat |-> c.lat, lng |-> c.lng, cell_id |-> cell,
                        cell_type |-> cellType(f, f.cell_id.has),
                        name |-> IF b = "part_001" THEN displayName(f, cell) ELSE NoString])
           ELSE Skipped

\* the callback of forEach in part_002
visitFeatureOlder(f, i) ==
  IF f.rec = "null" THEN Thrown
  ELSE IF f.geometry = "Point" /\ f.coordinates.shape # "missing"
  THEN IF f.coordinates.shape = "scalar" THEN Thrown
       ELSE IF ~isNaNCoerced(f.coordinates.lat) /\ ~isNaNCoerced(f.coordinates.lng)
       THEN Pushed([id |-> PointId(i), lat |-> f.coordinates.lat, lng |-> f.coordinates.lng,
                    cell_id |-> cellFalsy(f, i),
                    cell_type |-> cellType(f, Truthy(f.cell_id)), name |-> NoString])
       ELSE Skipped
  ELSE Skipped

\* features.forEach from the feature at position n on (index n - 1)
RECURSIVE forEachFeature(_, _, _)
forEachFeature(b, features, n) ==
  IF n > Len(features) THEN Skipped
  ELSE LET one == IF b = "part_002" THEN visitFeatureOlder(features[n], n - 1)
                  ELSE visitFeature(b, features[n], n - 1)
       IN  IF one.throws THEN Thrown
           ELSE LET rest == forEachFeature(b, features, n + 1)
                IN  IF rest.throws THEN Thrown
                    ELSE [throws |-> FALSE, points |-> one.points \o rest.points]

Rejected == [ok |-> FALSE, points |-> <<>>]

\* loadGeoJSONData of the build b on the response that the fetch brought
loadGeoJSONData(b, r) ==
  IF ~r.reached THEN Rejected
  ELSE IF ~r.ok THEN Rejected
  ELSE IF b # "part_002" /\ StartsWith(Trim(r.head), <<"<">>) THEN Rejected
  ELSE IF r.json = "syntax" THEN Rejected
  ELSE IF r.json # "features" THEN Rejected
  ELSE LET all == forEachFeature(b, r.features, 1)
       IN  IF all.throws THEN Rejected ELSE [ok |-> TRUE, points |-> all.points]

----------------------------------------------------------------------------
(* Documents that /centroid.geojson may hold *)

Lone(shape) == [shape |-> shape, lng |-> Undefined, lat |-> Undefined]
Pair(lng, lat) == [shape |-> "array", lng |-> lng, lat |-> lat]

Record(geometry, coordinates, cell_id, name) ==
  [rec |-> "object", geometry |-> geometry, coordinates |-> coordinates,
   cell_id |-> cell_id, cell_type |-> "string", name |-> name, Name |-> NoString]

\* a well-formed record: a Point at (n, n) with the cell id c
At(n, c) == Record("Point", Pair(Whole(n), Whole(n)), Str(c), NoString)

NullRecord == [Record("none", Lone("missing"), NoString, NoString) EXCEPT !.rec = "null"]

B2 == <<"B", "2">>
A1 == <<"A", "1">>
a23 == <<"a", "2", "3">>
Z99 == <<"Z", "9", "9">>

\* the example of the suggestion ordering
ExampleFeatures == <<At(1, B2), At(2, A23), At(3, A1)>>

\* duplicates, a cell id in lower case, a cell id with a blank inside, and a
\* display name that differs from the cell id
DuplicateFeatures ==
  <<At(1, B2), At(2, A23), At(3, a23), At(4, A23), At(5, <<"A", " ", "1">>),
    [At(6, <<"B", "1">>) EXCEPT !.Name = Str(<<"A", "l", "f", "a">>)]>>

\* nine well-formed records and one without coordinates
NineAndOne ==
  <<At(1, <<"A", "9">>), At(2, <<"A", "3">>), At(3, <<"A", "7">>),
    Record("Point", Lone("missing"), Str(<<"A", "0">>), NoString),
    At(5, <<"A", "3">>), At(6, <<"A", "1">>), At(7, <<"a", "2">>), At(8, <<"A", "8">>),
    At(9, <<"B", "4">>), At(10, <<"A", "5">>)>>

\* records to skip among well-formed ones: a null record, a polygon, a
\* coordinate that is a string, missing coordinates, an array of one
\* coordinate, a coordinate beyond the doubles, no geometry; and well-formed
\* records without cell_id, with a name only, with the empty cell_id
MalformedFeatures ==
  <<At(1, A1),
    NullRecord,
    Record("Polygon", Pair(Whole(2), Whole(2)), Str(B2), NoString),
    Record("Point", Pair(JsString(TRUE), Whole(3)), Str(B2), NoString),
    Record("Point", Pair(Whole(4), JsString(FALSE)), Str(B2), NoString),
    Record("Point", Lone("missing"), Str(B2), NoString),
    Record("Point", Pair(Whole(5), Undefined), Str(B2), NoString),
    Record("Point", Pair(Whole(6), Infinity(FALSE)), Str(B2), NoString),
    Record("none", Lone("missing"), Str(B2), NoString),
    Record("Point", Pair(Whole(7), Whole(7)), NoString, NoString),
    Record("Point", Pair(Whole(8), Whole(8)), NoString, Str(A23)),
    Record("Point", Pair(Whole(9), Whole(9)), Str(<<>>), Str(A23))>>

\* coordinates that are a number or an object instead of an array
ScalarFeatures == <<At(1, A1), Record("Point", Lone("scalar"), Str(B2), NoString), At(3, A23)>>

\* skipped records only, without a null record
SkippedFeatures ==
  <<At(1, A1),
    Record("Polygon", Pair(Whole(2), Whole(2)), Str(B2), NoString),
    Record("Point", Lone("missing"), Str(B2), NoString),
    Record("Point", Pair(Whole(4), JsString(FALSE)), Str(B2), NoString),
    At(5, A23)>>

Collection(features) ==
  [reached |-> TRUE, ok |-> TRUE, head |-> <<"{">>, json |-> "features", features |-> features]

Collections ==
  {Collection(fs) : fs \in {<<>>, ExampleFeatures, DuplicateFeatures, NineAndOne,
                            MalformedFeatures, ScalarFeatures, SkippedFeatures}}

\* the fetch rejects, answers 404, answers a page of HTML, answers text that
\* is no JSON, answers JSON without a features array
Unreachable == NoResponse
BadStatus == [NoResponse EXCEPT !.reached = TRUE, !.head = <<"{">>, !.json = "features"]
HtmlBody == [NoResponse EXCEPT !.reached = TRUE, !.ok = TRUE, !.head = <<" ", "<">>, !.json = "syntax"]
NoJson == [NoResponse EXCEPT !.reached = TRUE, !.ok = TRUE, !.head = <<"x">>, !.json = "syntax"]
NoFeatures == [NoResponse EXCEPT !.reached = TRUE, !.ok = TRUE, !.head = <<"{">>, !.json = "object"]

FailedResponses == {Unreachable, BadStatus, HtmlBody, NoJson, NoFeatures}

Responses == Collections \cup FailedResponses

Builds == {"map-container", "part_001", "part_002"}

----------------------------------------------------------------------------
(* The handle of the map component *)

FlyToZoom == 16

\* the position in points of the last point with this cell id, 0 if none
findLast(points, cellId) ==
  LET hits == {i \in 1..Len(points) : ToLowerCase(points[i].cell_id) = ToLowerCase(cellId)}
  IN  IF hits = {} THEN 0 ELSE CHOOSE i \in hits : \A j \in hits : j <= i

\* surveyPoints.find(...): the position of the point found, 0 if none
find(points, cellId) ==
  LET hits == {i \in 1..Len(points) : ToLowerCase(points[i].cell_id) = ToLowerCase(cellId)}
  IN  IF hits = {} THEN 0 ELSE CHOOSE i \in hits : \A j \in hits : i <= j

\* p.cell_id.toLowerCase() on a cell id that is a number is a TypeError: find
\* throws when it comes to such a point before a point that matches
findThrows(points, cellId) ==
  \E i \in 1..Len(points) :
    /\ points[i].cell_type = "number"
    /\ \A j \in 1..(i - 1) :
         /\ points[j].cell_type = "string"
         /\ ToLowerCase(points[j].cell_id) # ToLowerCase(cellId)

\* what it returns (or that its promise rejects) and where the viewport goes
searchAndFlyTo(points, map, v, cellId) ==
  LET n == find(points, cellId)
  IN  IF findThrows(points, cellId) THEN [found |-> FALSE, throws |-> TRUE, view |-> v]
      ELSE IF n # 0 /\ map
      THEN [found |-> TRUE, throws |-> FALSE,
            view |-> [by |-> "flyTo", zoom |-> Whole(FlyToZoom),
                      lat |-> points[n].lat, lng |-> points[n].lng]]
      ELSE [found |-> FALSE, throws |-> FALSE, view |-> v]

matches(b, p, lower) ==
  \/ IncludesString(ToLowerCase(p.cell_id), lower)
  \/ b = "part_001" /\ IncludesString(ToLowerCase(p.name.s), lower)

cellIds(points) == [i \in 1..Len(points) |-> points[i].cell_id]

getSuggestionsUnsorted(b, points, q) ==
  IF Trim(q) = <<>> THEN <<>>
  ELSE cellIds(SelectSeq(points, LAMBDA p : matches(b, p, ToLowerCase(q))))

getSuggestions(b, points, q) ==
  IF Trim(q) = <<>> THEN <<>>
  ELSE Sort(cellIds(SelectSeq(points, LAMBDA p : matches(b, p, ToLowerCase(q)))))

\* the viewport after fitBounds on the points just loaded
RECURSIVE Extreme(_, _)
Extreme(ns, upper) ==
  IF Len(ns) = 1 THEN ns[1]
  ELSE LET rest == Extreme(Tail(ns), upper)
       IN  IF (upper /\ ns[1] > rest) \/ (~upper /\ ns[1] < rest) THEN ns[1] ELSE rest

Middle(ns) == Dec(5 * (Extreme(ns, FALSE) + Extreme(ns, TRUE)), 1)

Fitted(points) ==
  points # <<>> /\ \A i \in 1..Len(points) : points[i].lat.k = "finite" /\ points[i].lng.k = "finite"

fitBounds(v, points) ==
  IF Fitted(points)
  THEN [by |-> "fitBounds", zoom |-> Undefined,
        lat |-> Middle([i \in 1..Len(points) |-> points[i].lat.m]),
        lng |-> Middle([i \in 1..Len(points) |-> points[i].lng.m])]
  ELSE v

\* queries for the handle and the search box
Queries ==
  {<<>>, <<" ">>, <<"a">>, <<"A">>, <<" ", "a">>, <<"2">>, <<"a", "l">>,
   A23, a23, <<"A", "2", "3", " ">>, Z99, <<"A", " ", "1">>}

\* the map mounted and a dataset loaded
Loaded(b, r) ==
  /\ build = b
  /\ mapReady = TRUE
  /\ surveyPoints = loadGeoJSONData(b, r).points
  /\ previous = <<>>
  /\ loading = 0
  /\ isLoading = FALSE
  /\ loadError = NoError
  /\ response = r
  /\ view = fitBounds(InitialView, loadGeoJSONData(b, r).points)
  /\ NoCall

UrlAtLoad ==
  /\ source = NoSource
  /\ arg = NoArg
  /\ parsed = NoArg
  /\ shared = NoUrl

InitLookup ==
  /\ \E b \in Builds : \E r \in Collections : loadGeoJSONData(b, r).ok /\ Loaded(b, r)
  /\ MountSearch
  /\ MountPage
  /\ hash = <<>>
  /\ search = <<>>
  /\ UrlAtLoad
  /\ lastOp = "loadSucceeded"

CallSearchAndFlyTo ==
  \E q \in Queries :
    LET r == searchAndFlyTo(surveyPoints, mapReady, view, q)
    IN  /\ found' = IF r.found THEN "true" ELSE "false"
        /\ view' = r.view
        /\ query' = q
        /\ suggested' = <<>>
        /\ lastOp' = "searchAndFlyTo"
        /\ UNCHANGED <<build, mapReady, surveyPoints, previous, loading, isLoading,
                       loadError, response, urlVars, searchVars, pageVars>>

CallGetSuggestions ==
  \E q \in Queries :
    /\ suggested' = getSuggestions(build, surveyPoints, q)
    /\ query' = q
    /\ found' = "none"
    /\ lastOp' = "getSuggestions"
    /\ UNCHANGED <<build, mapReady, surveyPoints, previous, loading, isLoading,
                   loadError, response, view, urlVars, searchVars, pageVars>>

NextLookup ==
  \/ CallSearchAndFlyTo
  \/ CallGetSuggestions

SpecLookup == InitLookup /\ [][NextLookup]_vars

----------------------------------------------------------------------------
(* The search box and the search handler of the page *)

SuggestionLimit == 5

\* handleInputChange without the slice
handleInputChangeAll(b, points, value) ==
  IF Trim(value) # <<>> THEN getSuggestions(b, points, Trim(value)) ELSE <<>>

\* the suggestions that handleInputChange sets for the value typed
handleInputChange(b, points, value) ==
  IF Trim(value) # <<>>
  THEN Slice(getSuggestions(b, points, Trim(value)), SuggestionLimit)
  ELSE <<>>

\* handleSubmit without its guard
submitsAlways(q) == TRUE

\* handleSubmit goes on to onSearch
submits(q) == Trim(q) # <<>>

\* the message without the query
notFoundPlain(cellId) ==
  Str(<<"C", "e", "l", "l", " ", "I", "D", " ", "n", "o", "t", " ", "f", "o", "u", "n", "d">>)

\* `Cell ID "${cellId}" not found`
notFoundMessage(cellId) ==
  Str(<<"C", "e", "l", "l", " ", "I", "D", " ", "\"">> \o cellId
        \o <<"\"", " ", "n", "o", "t", " ", "f", "o", "u", "n", "d">>)

\* the message of the catch of handleSearchById
searchFailed == Str(<<"S", "e", "a", "r", "c", "h", " ", "f", "a", "i", "l", "e", "d">>)

\* what the user types into the box
Typed == {<<>>, <<" ">>, <<"a">>, <<"a", "l">>, a23, <<"A", "2", "3", " ">>, Z99}

InitSearch ==
  /\ \E b \in {"map-container", "part_001"} :
       \E fs \in {ExampleFeatures, DuplicateFeatures, NineAndOne, MalformedFeatures} :
         Loaded(b, Collection(fs))
  /\ MountSearch
  /\ MountPage
  /\ hash = CompactExample
  /\ search \in {<<>>, <<Param("utm", <<"x">>), Param("id", B2)>>}
  /\ UrlAtLoad
  /\ lastOp = "loadSucceeded"

\* nothing runs between the call of searchAndFlyTo and the continuation of
\* handleSearchById after its await
Idle == ~pendingSearch.active

InputChange ==
  \E value \in Typed :
    /\ Idle
    /\ searchQuery' = value
    /\ suggestions' = handleInputChange(build, surveyPoints, value)
    /\ lastOp' = "handleInputChange"
    /\ UNCHANGED <<isSearching, searchError, pendingSearch, searchRet, urlVars, mapVars, pageVars>>

\* handleSearchById up to its await: the lookup and the flight are done
SearchStart(cellId) ==
  LET r == searchAndFlyTo(surveyPoints, mapReady, view, Trim(cellId))
  IN  /\ isSearching' = TRUE
      /\ searchError' = NoString
      /\ query' = Trim(cellId)
      /\ found' = IF r.found THEN "true" ELSE "false"
      /\ suggested' = <<>>
      /\ view' = r.view
      /\ pendingSearch' = [active |-> TRUE, cellId |-> cellId, found |-> r.found,
                            threw |-> r.throws]
      /\ searchRet' = "none"
      /\ UNCHANGED <<build, mapReady, surveyPoints, previous, loading, isLoading,
                     loadError, response, urlVars, pageVars>>

Submit ==
  /\ Idle
  /\ lastOp' = "handleSubmit"
  /\ IF submits(searchQuery)
     THEN SearchStart(Trim(searchQuery)) /\ UNCHANGED <<searchQuery, suggestions>>
     ELSE /\ searchRet' = "undefined"
          /\ UNCHANGED <<searchQuery, suggestions, isSearching, searchError, pendingSearch,
                         urlVars, mapVars, pageVars>>

SuggestionClick ==
  \E k \in 1..Len(suggestions) :
    /\ Idle
    /\ searchQuery' = suggestions[k]
    /\ SearchStart(suggestions[k])
    /\ lastOp' = "handleSuggestionClick"
    /\ UNCHANGED suggestions

\* handleSearchById after its await
SearchFinish ==
  /\ pendingSearch.active
  /\ IF pendingSearch.threw
     THEN /\ searchError' = searchFailed
          /\ searchRet' = "false"
          /\ UNCHANGED urlVars
     ELSE IF pendingSearch.found
     THEN /\ ReplaceState([NoArg EXCEPT !.cellId = Str(Trim(pendingSearch.cellId))])
          /\ searchRet' = "true"
          /\ UNCHANGED searchError
     ELSE /\ searchError' = notFoundMessage(pendingSearch.cellId)
          /\ searchRet' = "false"
          /\ UNCHANGED urlVars
  /\ isSearching' = FALSE
  /\ pendingSearch' = [pendingSearch EXCEPT !.active = FALSE]
  /\ lastOp' = "handleSearchById"
  /\ UNCHANGED <<searchQuery, suggestions, mapVars, pageVars>>

\* clearSearch of the box with handleClearSearch of the page
ClearSearch ==
  /\ Idle
  /\ searchQuery # <<>>
  /\ searchQuery' = <<>>
  /\ suggestions' = <<>>
  /\ ReplaceState([NoArg EXCEPT !.cellId = Str(<<>>)])
  /\ pendingSearch' = NoSearch
  /\ lastOp' = "clearSearch"
  /\ UNCHANGED <<isSearching, searchError, searchRet, mapVars, pageVars>>

ReadUrl == Idle /\ CallParseUrlState

NextSearch ==
  \/ InputChange
  \/ Submit
  \/ SuggestionClick
  \/ SearchFinish
  \/ ClearSearch
  \/ ReadUrl

SpecSearch == InitSearch /\ [][NextSearch]_vars

----------------------------------------------------------------------------
(* The load effect of the map component *)

\* loads that may be in flight at once
MaxLoads == 2

\* a setter that appends to the points held
mergeSurveyPoints(held, points) == held \o points

\* setSurveyPoints(points)
setSurveyPoints(held, points) == points

\* a catch that empties the dataset and reports nothing
runCatchSilent(held) ==
  [surveyPoints |-> <<>>, loadError |-> NoError, isLoading |-> FALSE]

\* the catch and the finally of run
runCatch(held) ==
  [surveyPoints |-> held,
   loadError |-> [has |-> TRUE, s |-> "Failed to load survey data"],
   isLoading |-> FALSE]

\* a record whose coordinates are no place on earth: longitude 200, latitude 100
RangeFeatures == <<At(1, A1), Record("Point", Pair(Whole(200), Whole(100)), Str(B2), NoString)>>

\* the documents of this part
LoadResponses ==
  {Collection(fs) : fs \in {<<>>, ExampleFeatures, NineAndOne, MalformedFeatures,
                            ScalarFeatures, SkippedFeatures, RangeFeatures}}
    \cup FailedResponses

InitLoad ==
  /\ build \in Builds
  /\ MountMap
  /\ MountSearch
  /\ MountPage
  /\ hash = <<>>
  /\ search = <<>>
  /\ UrlAtLoad
  /\ lastOp = "mount"

\* the start of run: the fetch is sent
runStart ==
  /\ isLoading' = TRUE
  /\ loadError' = NoError
  /\ loading' = loading + 1
  /\ lastOp' = "run"
  /\ UNCHANGED <<build, surveyPoints, previous, response, view, query, found, suggested,
                 urlVars, searchVars, pageVars>>

\* Leaflet is loaded and the map is created: the load effect runs
MapInit ==
  /\ ~mapReady
  /\ mapReady' = TRUE
  /\ runStart

\* the load effect runs again (clusterReady, a new map)
LoadStart ==
  /\ mapReady
  /\ loading < MaxLoads
  /\ UNCHANGED mapReady
  /\ runStart

LoadSucceed ==
  \E r \in LoadResponses :
    LET points == loadGeoJSONData(build, r).points
    IN  /\ loading > 0
        /\ loadGeoJSONData(build, r).ok
        /\ surveyPoints' = setSurveyPoints(surveyPoints, points)
        /\ previous' = surveyPoints
        /\ view' = fitBounds(view, points)
        /\ isLoading' = FALSE
        /\ loading' = loading - 1
        /\ response' = r
        /\ lastOp' = "loadSucceeded"
        /\ UNCHANGED <<build, mapReady, loadError, query, found, suggested, urlVars, searchVars, pageVars>>

LoadFail ==
  \E r \in LoadResponses :
    LET after == runCatch(surveyPoints)
    IN  /\ loading > 0
        /\ ~loadGeoJSONData(build, r).ok
        /\ surveyPoints' = after.surveyPoints
        /\ loadError' = after.loadError
        /\ isLoading' = after.isLoading
        /\ previous' = surveyPoints
        /\ loading' = loading - 1
        /\ response' = r
        /\ lastOp' = "loadFailed"
        /\ UNCHANGED <<build, mapReady, view, query, found, suggested, urlVars, searchVars, pageVars>>

\* the user closes the toast of the load error
DismissLoadError ==
  /\ loadError.has
  /\ loadError' = NoError
  /\ lastOp' = "onClose"
  /\ UNCHANGED <<build, mapReady, surveyPoints, previous, loading, isLoading, response, view,
                 query, found, suggested, urlVars, searchVars, pageVars>>

NextLoad ==
  \/ MapInit
  \/ LoadStart
  \/ LoadSucceed
  \/ LoadFail
  \/ DismissLoadError

SpecLoad == InitLoad /\ [][NextLoad]_vars

----------------------------------------------------------------------------
(* The page (src/unnamed/part_003) and the map widget under it *)

\* survey layers built in one run, and searches whose highlight timers are
\* pending at once
MaxLayers == 2
MaxHighlights == 2

ZOOM_THRESHOLD == 8
OlderThreshold == 12
DefaultZoom == 11
SearchDelay == 1000
HighlightDelay == 1200
HighlightLife == 1800
ToastDuration == 4000
CloseDelay == 200

\* a number that an if or an || takes for true
TruthyNumber(x) == x.k = "Infinity" \/ (x.k = "finite" /\ x.m # 0)

\* z >= n for a zoom z
AtLeast(z, n) == z.k = "finite" /\ z.m >= n * Pow10(z.e)

\* L.map(el, { center: [initialState.lat, initialState.lng],
\*             zoom: initialState?.zoom || 11 }); the page always hands an
\* initialState
mapAt(initialState) ==
  [by |-> "initialState",
   zoom |-> IF TruthyNumber(initialState.zoom) THEN initialState.zoom ELSE Whole(DefaultZoom),
   lat |-> initialState.lat, lng |-> initialState.lng]

zoomThreshold(b) == IF b = "part_002" THEN OlderThreshold ELSE ZOOM_THRESHOLD

\* the layers on the map after the zoomend handler; in part_001 the handler
\* leaves the layers alone and the effect on currentZoom adds the survey layer
zoomend(b, z, layer, onMap) ==
  IF layer = 0 THEN onMap
  ELSE IF b = "part_001" THEN onMap \cup {layer}
  ELSE IF AtLeast(z, zoomThreshold(b)) THEN onMap \cup {layer}
  ELSE onMap \ {layer}

\* the survey layer that the load effect builds and the layers on the map
\* after it: part_001 takes the layer before off the map, the others leave it
buildLayer(b, z, layer, onMap, fresh) ==
  [layer |-> fresh,
   shown |-> IF b = "part_001" THEN (onMap \ {layer}) \cup {fresh}
             ELSE IF AtLeast(z, zoomThreshold(b)) THEN onMap \cup {fresh}
             ELSE onMap]

\* if (urlState.cellId && mapRef.current)
schedulesSearch(urlState, attached) == Truthy(urlState.cellId) /\ attached

\* if (urlState.zoom && urlState.lat && urlState.lng)
appliesPosition(urlState) ==
  TruthyNumber(urlState.zoom) /\ TruthyNumber(urlState.lat) /\ TruthyNumber(urlState.lng)

Timer(kind, id, left, cellId) == [kind |-> kind, id |-> id, left |-> left, cellId |-> cellId]

Flight(by, zoom, lat, lng) == [active |-> TRUE, by |-> by, zoom |-> zoom, lat |-> lat, lng |-> lng]

\* the timers of the toast effect, which its cleanup clears
effectTimers(pending) == {t \in pending : t.kind = "expire"}

\* the timers of searchAndFlyTo
highlightTimers(pending) == {t \in pending : t.kind \in {"add", "remove"}}

\* a search that clears the timers of the searches before it
scheduleHighlightAlone(pending, id) ==
  (pending \ highlightTimers(pending)) \cup {Timer("add", id, HighlightDelay, <<>>)}

\* setTimeout(() => { highlight.addTo(...); setTimeout(..., 1800) }, 1200)
scheduleHighlight(pending, id) == pending \cup {Timer("add", id, HighlightDelay, <<>>)}

\* the effect of the toast on [duration, onClose]: the cleanup clears the
\* timer, the effect sets one of 4000 ms
toastEffect(pending, mountedBefore) ==
  (pending \ effectTimers(pending)) \cup {Timer("expire", 0, ToastDuration, <<>>)}

\* the finally of handleSearchById leaves isSearching true after a throw
finallySticky(threw) == threw

\* finally { setIsSearching(false) }
finallyIsSearching(threw) == FALSE

\* the render of the page that a state change made due.  The map component
\* gets a new onMapStateChange (and initialState): its init effect removes the
\* map and creates one at initialState.  The toast of the search error is
\* mounted, unmounted, or gets a new onClose.
Rerender ==
  /\ renderDue
  /\ renderDue' = FALSE
  /\ IF mapReady
     THEN /\ view' = mapAt(currentMapState)
          /\ shown' = {}
          /\ highlights' = {}
          /\ flight' = NoFlight
     ELSE UNCHANGED <<view, shown, highlights, flight>>
  /\ IF Truthy(searchError)
     THEN /\ toast' = IF toast.mounted THEN toast
                      ELSE [toast EXCEPT !.mounted = TRUE, !.isVisible = TRUE]
          /\ timers' = toastEffect(timers, toast.mounted)
     ELSE /\ toast' = [toast EXCEPT !.mounted = FALSE, !.isVisible = FALSE]
          /\ timers' = timers \ effectTimers(timers)
  /\ lastOp' = "render"
  /\ UNCHANGED <<build, mapReady, surveyPoints, previous, loading, isLoading, loadError,
                 response, query, found, suggested, urlVars, searchVars,
                 currentMapState, handle, mounted, lastCell, surveyLayer>>

\* the initial URL effect of the page
PageEffect ==
  LET urlState == parseUrlState(hash, search)
  IN  /\ ~mounted
      /\ mounted' = TRUE
      /\ parsed' = urlState
      /\ IF schedulesSearch(urlState, handle)
         THEN /\ timers' = timers \cup {Timer("urlSearch", 0, SearchDelay, urlState.cellId.s)}
              /\ UNCHANGED <<currentMapState, renderDue>>
         ELSE IF appliesPosition(urlState)
         THEN /\ currentMapState' = [zoom |-> urlState.zoom, lat |-> urlState.lat,
                                     lng |-> urlState.lng]
              /\ renderDue' = TRUE
              /\ UNCHANGED timers
         ELSE UNCHANGED <<currentMapState, renderDue, timers>>
      /\ lastOp' = "effect"
      /\ UNCHANGED <<hash, search, source, arg, shared, mapVars, searchVars,
                     handle, lastCell, flight, surveyLayer, shown, highlights, toast>>

\* the map component is loaded and mounted after the first commit of the
\* page: mapRef.current of the page is set
HandleAttach ==
  /\ mounted
  /\ ~handle
  /\ handle' = TRUE
  /\ lastOp' = "attach"
  /\ UNCHANGED <<urlVars, mapVars, searchVars, currentMapState, mounted, renderDue, lastCell,
                 flight, surveyLayer, shown, highlights, timers, toast>>

\* Leaflet is loaded: the init effect creates the map and the load effect runs
PageMapInit ==
  /\ mounted
  /\ handle
  /\ ~mapReady
  /\ mapReady' = TRUE
  /\ view' = mapAt(currentMapState)
  /\ isLoading' = TRUE
  /\ loadError' = NoError
  /\ loading' = loading + 1
  /\ lastOp' = "run"
  /\ UNCHANGED <<build, surveyPoints, previous, response, query, found, suggested,
                 urlVars, searchVars, pageVars>>

\* the load effect runs again
PageLoadStart ==
  /\ surveyLayer + loading < MaxLayers
  /\ LoadStart

\* zoom levels at which fitBounds may arrive, as the size of the window has it
FitZooms == {5, 12}

\* the documents of this part: the example, a document with a cell id that is
\* a number, an empty one
NumericFeatures == <<At(1, A1), [At(2, <<"7">>) EXCEPT !.cell_type = "number"], At(3, A23)>>

PageResponses == {Collection(ExampleFeatures), Collection(NumericFeatures), Collection(<<>>)}

\* the continuation of run after loadGeoJSONData: the points are set, the
\* layer is built and put on the map or not, fitBounds starts (not in part_002)
PageLoadSucceed ==
  \E r \in PageResponses : \E z \in FitZooms :
    LET points == loadGeoJSONData(build, r).points
        built == buildLayer(build, view.zoom, surveyLayer, shown, surveyLayer + 1)
        fit == fitBounds(view, points)
    IN  /\ loading > 0
        /\ loadGeoJSONData(build, r).ok
        /\ surveyPoints' = setSurveyPoints(surveyPoints, points)
        /\ previous' = surveyPoints
        /\ isLoading' = FALSE
        /\ loading' = loading - 1
        /\ response' = r
        /\ surveyLayer' = built.layer
        /\ shown' = built.shown
        /\ flight' = IF build # "part_002" /\ Fitted(points)
                     THEN Flight("fitBounds", Whole(z), fit.lat, fit.lng)
                     ELSE flight
        /\ lastOp' = "loadSucceeded"
        /\ UNCHANGED <<build, mapReady, loadError, view, query, found, suggested, urlVars,
                       searchVars, currentMapState, handle, mounted, renderDue, lastCell,
                       highlights, timers, toast>>

\* the map arrives at v: the zoomend handler if the zoom changed, then
\* updateMapState on moveend with handleMapStateChange of the page
Arrive(v, by) ==
  /\ view' = [by |-> by, zoom |-> v.zoom, lat |-> v.lat, lng |-> v.lng]
  /\ shown' = IF v.zoom # view.zoom THEN zoomend(build, v.zoom, surveyLayer, shown) ELSE shown
  /\ currentMapState' = [zoom |-> v.zoom, lat |-> v.lat, lng |-> v.lng]
  /\ ReplaceState([NoArg EXCEPT !.zoom = v.zoom, !.lat = v.lat, !.lng = v.lng])
  /\ renderDue' = TRUE
  /\ flight' = NoFlight

\* where the user takes the map
PageViews ==
  {View(Whole(0), Whole(0), Whole(0)),
   View(Whole(7), Dec(407128, 4), Dec(-74006, 3)),
   View(Whole(10), Dec(407128, 4), Dec(-74006, 3)),
   View(Whole(16), Dec(407128, 4), Dec(-74006, 3))}

\* the user pans or zooms to one of these
UserMoveTo(views) ==
  \E v \in views :
    /\ mapReady
    /\ Idle
    /\ <<v.zoom, v.lat, v.lng>> # <<view.zoom, view.lat, view.lng>>
    /\ Arrive(v, "user")
    /\ lastOp' = "moveend"
    /\ UNCHANGED <<build, mapReady, surveyPoints, previous, loading, isLoading, loadError,
                   response, query, found, suggested, searchVars, handle, mounted, lastCell,
                   surveyLayer, highlights, timers, toast>>

UserMove == UserMoveTo(PageViews)

\* flyTo or fitBounds arrives
FlightEnd ==
  /\ flight.active
  /\ Idle
  /\ Arrive(flight, flight.by)
  /\ lastOp' = "moveend"
  /\ UNCHANGED <<build, mapReady, surveyPoints, previous, loading, isLoading, loadError,
                 response, query, found, suggested, searchVars, handle, mounted, lastCell,
                 surveyLayer, highlights, timers, toast>>

\* an id for the highlight of this search
FreshHighlight(pending) ==
  CHOOSE i \in 1..(MaxHighlights + 1) :
    /\ i \notin {t.id : t \in highlightTimers(pending)} \cup highlights
    /\ \A j \in 1..(i - 1) : j \in {t.id : t \in highlightTimers(pending)} \cup highlights

\* handleSearchById of the page up to its await, the timers pending being
\* those of pending: searchAndFlyTo has started the flight and set its timer
PageSearchStart(cellId, pending) ==
  LET r == searchAndFlyTo(surveyPoints, mapReady, view, Trim(cellId))
  IN  /\ Idle
      /\ handle
      /\ Cardinality({t.id : t \in highlightTimers(pending)} \cup highlights) < MaxHighlights
      /\ isSearching' = TRUE
      /\ searchError' = NoString
      /\ toast' = [toast EXCEPT !.shownFor = 0]
      /\ pendingSearch' = [active |-> TRUE, cellId |-> cellId, found |-> r.found,
                            threw |-> r.throws]
      /\ query' = Trim(cellId)
      /\ found' = IF r.found THEN "true" ELSE "false"
      /\ suggested' = <<>>
      /\ searchRet' = "none"
      /\ flight' = IF r.found THEN Flight("flyTo", r.view.zoom, r.view.lat, r.view.lng)
                   ELSE flight
      /\ timers' = IF r.found THEN scheduleHighlight(pending, FreshHighlight(pending))
                   ELSE pending
      /\ renderDue' = TRUE
      /\ UNCHANGED <<build, mapReady, surveyPoints, previous, loading, isLoading, loadError,
                     response, view, urlVars, searchQuery, suggestions, currentMapState,
                     handle, mounted, lastCell, surveyLayer, shown, highlights>>

\* what the user searches for
PageQueries == {A23, <<" ", "A", "1">>, Z99}

\* the search box calls onSearch with one of these
UserSearchOf(queries) ==
  \E cellId \in queries :
    /\ PageSearchStart(cellId, timers)
    /\ lastOp' = "onSearch"

UserSearch == UserSearchOf(PageQueries)

\* handleSearchById after its await, with its catch and its finally
PageSearchFinish ==
  /\ pendingSearch.active
  /\ IF pendingSearch.threw
     THEN /\ searchError' = searchFailed
          /\ searchRet' = "false"
          /\ UNCHANGED <<urlVars, lastCell>>
     ELSE IF pendingSearch.found
     THEN /\ ReplaceState([NoArg EXCEPT !.cellId = Str(Trim(pendingSearch.cellId))])
          /\ lastCell' = Str(Trim(pendingSearch.cellId))
          /\ searchRet' = "true"
          /\ UNCHANGED searchError
     ELSE /\ searchError' = notFoundMessage(pendingSearch.cellId)
          /\ searchRet' = "false"
          /\ UNCHANGED <<urlVars, lastCell>>
  /\ isSearching' = finallyIsSearching(pendingSearch.threw)
  /\ pendingSearch' = [pendingSearch EXCEPT !.active = FALSE]
  /\ renderDue' = TRUE
  /\ lastOp' = "handleSearchById"
  /\ UNCHANGED <<searchQuery, suggestions, mapVars, currentMapState, handle, mounted, flight,
                 surveyLayer, shown, highlights, timers, toast>>

\* handleClearSearch of the page
PageClearSearch ==
  /\ Idle
  /\ ReplaceState([NoArg EXCEPT !.cellId = Str(<<>>)])
  /\ lastCell' = Str(<<>>)
  /\ lastOp' = "handleClearSearch"
  /\ UNCHANGED <<mapVars, searchVars, currentMapState, handle, mounted, renderDue, flight,
                 surveyLayer, shown, highlights, timers, toast>>

\* a timer that is due runs its callback
Fire ==
  \E t \in timers :
    /\ t.left = 0
    /\ Idle
    /\ CASE t.kind = "urlSearch" ->
              IF handle
              THEN PageSearchStart(t.cellId, timers \ {t})
              ELSE /\ timers' = timers \ {t}
                   /\ searchRet' = "false"
                   /\ UNCHANGED <<mapVars, urlVars, searchQuery, suggestions, isSearching,
                                  searchError, pendingSearch, currentMapState, handle, mounted,
                                  renderDue, lastCell, flight, surveyLayer, shown, highlights,
                                  toast>>
         [] t.kind = "add" ->
              /\ IF mapReady
                 THEN /\ highlights' = highlights \cup {t.id}
                      /\ timers' = (timers \ {t}) \cup {Timer("remove", t.id, HighlightLife, <<>>)}
                 ELSE /\ timers' = timers \ {t}
                      /\ UNCHANGED highlights
              /\ UNCHANGED <<mapVars, urlVars, searchVars, currentMapState, handle, mounted,
                             renderDue, lastCell, flight, surveyLayer, shown, toast>>
         [] t.kind = "remove" ->
              /\ highlights' = highlights \ {t.id}
              /\ timers' = timers \ {t}
              /\ UNCHANGED <<mapVars, urlVars, searchVars, currentMapState, handle, mounted,
                             renderDue, lastCell, flight, surveyLayer, shown, toast>>
         [] t.kind = "expire" ->
              /\ toast' = [toast EXCEPT !.isVisible = FALSE]
              /\ timers' = (timers \ {t}) \cup {Timer("close", 0, CloseDelay, <<>>)}
              /\ UNCHANGED <<mapVars, urlVars, searchVars, currentMapState, handle, mounted,
                             renderDue, lastCell, flight, surveyLayer, shown, highlights>>
         [] t.kind = "close" ->
              /\ searchError' = NoString
              /\ renderDue' = (renderDue \/ Truthy(searchError))
              /\ toast' = [toast EXCEPT !.shownFor = 0]
              /\ timers' = timers \ {t}
              /\ UNCHANGED <<mapVars, urlVars, searchQuery, suggestions, isSearching,
                             pendingSearch, searchRet, currentMapState, handle, mounted,
                             lastCell, flight, surveyLayer, shown, highlights>>
    /\ lastOp' = t.kind

\* the user closes the toast: handleClose
ToastClose ==
  /\ toast.mounted
  /\ toast.isVisible
  /\ Idle
  /\ toast' = [toast EXCEPT !.isVisible = FALSE]
  /\ timers' = timers \cup {Timer("close", 0, CloseDelay, <<>>)}
  /\ lastOp' = "handleClose"
  /\ UNCHANGED <<mapVars, urlVars, searchVars, currentMapState, handle, mounted, renderDue,
                 lastCell, flight, surveyLayer, shown, highlights>>

\* the longest time for which a toast is followed
LongShown == 6000

\* the time that passes in one step: up to the next timer that is due, or a
\* second
Elapses(pending) == {1000} \cup {t.left : t \in pending}

\* time passes: no timer is overrun, no render and no continuation waits
Elapse ==
  \E d \in Elapses(timers) :
    /\ Idle
    /\ ~renderDue
    /\ d > 0
    /\ \A t \in timers : t.left >= d
    /\ timers' = {[t EXCEPT !.left = @ - d] : t \in timers}
    /\ toast' = [toast EXCEPT !.shownFor = IF Truthy(searchError) /\ @ + d <= LongShown
                                            THEN @ + d ELSE @]
    /\ lastOp' = "elapse"
    /\ UNCHANGED <<mapVars, urlVars, searchVars, currentMapState, handle, mounted, renderDue,
                   lastCell, flight, surveyLayer, shown, highlights>>


----------------------------------------------------------------------------
(* The survey layer and the zoom *)

\* README: points only render at zoom level 15+
DocumentedZoom == 15

\* the page after its first effect, with the map component attached
PageMounted ==
  /\ currentMapState = InitialMapState
  /\ handle = TRUE
  /\ mounted = TRUE
  /\ renderDue = FALSE
  /\ lastCell = NoString
  /\ flight = NoFlight
  /\ surveyLayer = 0
  /\ shown = {}
  /\ highlights = {}
  /\ timers = {}
  /\ toast = NoToast

InitZoom ==
  /\ build \in Builds
  /\ MountMap
  /\ MountSearch
  /\ PageMounted
  /\ hash = <<>>
  /\ search = <<>>
  /\ UrlAtLoad
  /\ lastOp = "mount"

NextZoom ==
  \/ PageMapInit
  \/ PageLoadStart
  \/ PageLoadSucceed
  \/ LoadFail
  \/ UserMove
  \/ FlightEnd
  \/ Rerender

SpecZoom == InitZoom /\ [][NextZoom]_vars


----------------------------------------------------------------------------
(* Searches on the loaded page *)

\* the page after the first load: the layer is built, fitBounds is under way
PageLoaded(r, z) ==
  LET points == loadGeoJSONData(build, r).points
      fit == fitBounds(mapAt(InitialMapState), points)
  IN  /\ mapReady = TRUE
      /\ surveyPoints = points
      /\ previous = <<>>
      /\ loading = 0
      /\ isLoading = FALSE
      /\ loadError = NoError
      /\ response = r
      /\ view = mapAt(InitialMapState)
      /\ NoCall
      /\ currentMapState = InitialMapState
      /\ handle = TRUE
      /\ mounted = TRUE
      /\ renderDue = FALSE
      /\ lastCell = NoString
      /\ flight = Flight("fitBounds", Whole(z), fit.lat, fit.lng)
      /\ surveyLayer = 1
      /\ shown = buildLayer(build, view.zoom, 0, {}, 1).shown
      /\ highlights = {}
      /\ timers = {}
      /\ toast = NoToast

InitSearching ==
  /\ build = "map-container"
  /\ \E r \in {Collection(ExampleFeatures), Collection(NumericFeatures)} :
       \E z \in FitZooms : PageLoaded(r, z)
  /\ MountSearch
  /\ hash = <<>>
  /\ search = <<>>
  /\ UrlAtLoad
  /\ lastOp = "loadSucceeded"

NextSearching ==
  \/ UserSearch
  \/ PageSearchFinish
  \/ PageClearSearch
  \/ UserMove
  \/ FlightEnd
  \/ Rerender

SpecSearching == InitSearching /\ [][NextSearching]_vars

\* the continuation of handleSearchById is a job of the promise that
\* searchAndFlyTo has resolved or rejected: the runtime runs it
SpecSearchingFair == SpecSearching /\ WF_vars(PageSearchFinish)

----------------------------------------------------------------------------
(* The timers of the highlight and of the toast *)

\* searches for cell ids of the dataset
ListedQueries == {A23, <<" ", "A", "1">>}

SearchListed == UserSearchOf(ListedQueries)

InitHighlight ==
  /\ build = "map-container"
  /\ \E z \in FitZooms : PageLoaded(Collection(ExampleFeatures), z)
  /\ MountSearch
  /\ hash = <<>>
  /\ search = <<>>
  /\ UrlAtLoad
  /\ lastOp = "loadSucceeded"

NextHighlight ==
  \/ SearchListed
  \/ PageSearchFinish
  \/ FlightEnd
  \/ Rerender
  \/ Fire
  \/ Elapse

SpecHighlight == InitHighlight /\ [][NextHighlight]_vars

\* time passes, a timer that is due runs, a promise job runs, a render that
\* is due is made, a move of the map arrives
SpecHighlightFair ==
  /\ SpecHighlight
  /\ WF_vars(Elapse)
  /\ WF_vars(Fire)
  /\ WF_vars(PageSearchFinish)
  /\ WF_vars(Rerender)

----------------------------------------------------------------------------
(* The toast of a search that found nothing *)

\* a search for a cell id that the dataset does not hold
UnlistedQueries == {Z99}

SearchUnlisted == UserSearchOf(UnlistedQueries)

\* where the user takes the map while the toast is shown
ToastViews ==
  {View(Whole(7), Dec(407128, 4), Dec(-74006, 3)),
   View(Whole(10), Dec(407128, 4), Dec(-74006, 3))}

MoveUnderToast == UserMoveTo(ToastViews)

InitToast ==
  /\ build = "map-container"
  /\ \E z \in FitZooms : PageLoaded(Collection(ExampleFeatures), z)
  /\ MountSearch
  /\ hash = <<>>
  /\ search = <<>>
  /\ UrlAtLoad
  /\ lastOp = "loadSucceeded"

NextToast ==
  \/ SearchUnlisted
  \/ PageSearchFinish
  \/ MoveUnderToast
  \/ FlightEnd
  \/ Rerender
  \/ Fire
  \/ ToastClose
  \/ Elapse

SpecToast == InitToast /\ [][NextToast]_vars

\* time does not stop, however often a render or an event holds it up; a
\* timer that is due runs, a promise job runs, a render that is due is made;
\* what the user does is up to the user
SpecToastFair ==
  /\ SpecToast
  /\ SF_vars(Elapse)
  /\ WF_vars(Fire)
  /\ WF_vars(PageSearchFinish)
  /\ WF_vars(Rerender)

----------------------------------------------------------------------------
(* The page from its load *)

\* fragments of the URL the page is opened with: none, the documented
\* example, the origin at zoom 0, a place on the equator
PageFragments ==
  {<<>>, CompactExample,
   compactFragment(Whole(0), Whole(0), Whole(0)),
   compactFragment(Whole(5), Whole(0), Whole(200000))}

\* queries of the URL the page is opened with: no id, an id of the dataset,
\* an id that is not in it
PageIdQueries == {<<>>, <<Param("id", A23)>>, <<Param("id", Z99)>>}

\* the first render of the page.  The map component is a dynamic import: it
\* is attached at the first commit when its module is already there, and
\* after it otherwise.
InitPage ==
  /\ build = "map-container"
  /\ MountMap
  /\ MountSearch
  /\ currentMapState = InitialMapState
  /\ handle \in BOOLEAN
  /\ mounted = FALSE
  /\ renderDue = FALSE
  /\ lastCell = NoString
  /\ flight = NoFlight
  /\ surveyLayer = 0
  /\ shown = {}
  /\ highlights = {}
  /\ timers = {}
  /\ toast = NoToast
  /\ hash \in PageFragments
  /\ search \in PageIdQueries
  /\ UrlAtLoad
  /\ lastOp = "mount"

NextPage ==
  \/ PageEffect
  \/ HandleAttach
  \/ PageMapInit
  \/ PageLoadSucceed
  \/ FlightEnd
  \/ Rerender
  \/ Fire
  \/ PageSearchFinish
  \/ Elapse

SpecPage == InitPage /\ [][NextPage]_vars

\* the steps that bring the mounted page up, one after the other: the import
\* of the map component, Leaflet, the fetch
PageBoot ==
  \/ HandleAttach
  \/ PageMapInit
  \/ PageLoadSucceed

\* the jobs that the runtime has queued: a timer that is due, a promise job,
\* a render, the end of a move of the map
PageJob ==
  \/ Fire
  \/ PageSearchFinish
  \/ Rerender
  \/ FlightEnd

\* once its effect has run the page comes up, queued jobs run, time passes
SpecPageFair ==
  /\ SpecPage
  /\ WF_vars(PageBoot)
  /\ WF_vars(PageJob)
  /\ WF_vars(Elapse)

----------------------------------------------------------------------------
(* Vocabulary of the properties *)

IsFinite(x) == x.k = "finite"
IsInteger(x) == x.k = "finite" /\ x.e = 0

\* the value of a finite number in units of 1e-6
Micro(x) == x.m * Pow10(6 - x.e)

\* a finite number of magnitude at most 1000 with at most six decimals
Small(x) == x.k = "finite" /\ x.e <= 6 /\ Abs(x.m) <= 1000 * Pow10(x.e)

\* two numbers within 1e-5 of each other
Within1e5(a, b) == Small(a) /\ Small(b) /\ Abs(Micro(a) - Micro(b)) <= 10

\* n is x rounded to the nearest integer, a tie going up
IsRounded(n, x) == 1000000 * n - 500000 <= Micro(x) /\ Micro(x) < 1000000 * n + 500000

\* n is x * 100000 rounded to the nearest integer, a tie going up
IsScaledRounded(n, x) == 10 * n - 5 <= Micro(x) /\ Micro(x) < 10 * n + 5

\* a ViewState of the data model: integer zoom in 0..22, lat and lng in range
InViewDomain(v) ==
  /\ IsInteger(v.zoom) /\ v.zoom.m \in 0..22
  /\ Small(v.lat) /\ Abs(Micro(v.lat)) <= 90000000
  /\ Small(v.lng) /\ Abs(Micro(v.lng)) <= 180000000

\* zoom, lat and lng are all given as finite numbers
FullPosition(v) == IsFinite(v.zoom) /\ IsFinite(v.lat) /\ IsFinite(v.lng)

HasNoPosition(st) == st.zoom = Undefined /\ st.lat = Undefined /\ st.lng = Undefined

\* an optional minus sign and at least one digit
IsIntLiteral(s) ==
  LET body == IF s # <<>> /\ Head(s) = "-" THEN Tail(s) ELSE s
  IN  body # <<>> /\ AllDigits(body)

IntLiteralVal(s) == IF Head(s) = "-" THEN -DigitsVal(Tail(s)) ELSE DigitsVal(s)

\* an optional sign, digits with at most one decimal point, at least one digit
IsFiniteLiteral(s) ==
  LET body == IF s # <<>> /\ Head(s) \in {"+", "-"} THEN Tail(s) ELSE s
      dots == {i \in 1..Len(body) : body[i] = "."}
  IN  /\ Cardinality(dots) <= 1
      /\ \A i \in 1..Len(body) : IsDigit(body[i]) \/ body[i] = "."
      /\ \E i \in 1..Len(body) : IsDigit(body[i])

\* the parts of a fragment under the grammar its shape selects
GrammarParts(h) ==
  IF Includes(h, "/") THEN Split(h, "/")
  ELSE IF StartsWith(h, MAP_) THEN Split(Substring(h, 4), "_")
  ELSE <<>>

\* the compact form map_<zoom>_<latInt>_<lngInt>
IsCompactForm(h) ==
  /\ ~Includes(h, "/")
  /\ StartsWith(h, MAP_)
  /\ Len(GrammarParts(h)) = 3
  /\ \A i \in 1..3 : IsIntLiteral(GrammarParts(h)[i])

\* the compact form of the view v
IsCompactFormOf(h, v) ==
  /\ IsCompactForm(h)
  /\ IsRounded(IntLiteralVal(GrammarParts(h)[1]), v.zoom)
  /\ IsScaledRounded(IntLiteralVal(GrammarParts(h)[2]), v.lat)
  /\ IsScaledRounded(IntLiteralVal(GrammarParts(h)[3]), v.lng)

\* the values of the id parameter, in order
IdsOf(params) == SelectSeq(params, LAMBDA p : p.name = "id")
OthersOf(params) == SelectSeq(params, LAMBDA p : p.name # "id")

\* two characters that are the same letter, in either case
SameLetter(c, d) == c = d \/ \E k \in 1..26 : {c, d} = {UpperCase[k], LowerCase[k]}

\* a equals b ignoring case
EqualsIgnoringCase(a, b) ==
  Len(a) = Len(b) /\ \A k \in 1..Len(a) : SameLetter(a[k], b[k])

\* text contains q ignoring case
ContainsIgnoringCase(text, q) ==
  \E i \in 0..(Len(text) - Len(q)) : \A k \in 1..Len(q) : SameLetter(text[i + k], q[k])

\* a is not after b in lexicographic order
LexLeq(a, b) ==
  \/ Len(a) <= Len(b) /\ SubSeq(b, 1, Len(a)) = a
  \/ \E k \in 1..Len(a) :
       /\ k <= Len(b)
       /\ SubSeq(a, 1, k - 1) = SubSeq(b, 1, k - 1)
       /\ CodeUnit(a[k]) < CodeUnit(b[k])

Ascending(r) == \A i \in 1..Len(r) : \A j \in i..Len(r) : LexLeq(r[i], r[j])

Occurrences(r, c) == Cardinality({i \in 1..Len(r) : r[i] = c})

\* the positions of the points that exact lookup may find for q
ExactHits(points, q) == {i \in 1..Len(points) : EqualsIgnoringCase(points[i].cell_id, q)}

\* the positions of the points that a suggestion for q lists
SuggestionHits(points, q) ==
  {i \in 1..Len(points) :
     \/ ContainsIgnoringCase(points[i].cell_id, q)
     \/ points[i].name.has /\ ContainsIgnoringCase(points[i].name.s, q)}

\* r lists the cell id of every hit, as often as it is hit, in ascending order
ListsHits(r, points, hits) ==
  /\ Len(r) = Cardinality(hits)
  /\ \A i \in hits :
       Occurrences(r, points[i].cell_id)
         = Cardinality({j \in hits : points[j].cell_id = points[i].cell_id})
  /\ Ascending(r)

\* the positions of the records with Point geometry and two finite numbers
ValidRecords(features) ==
  {i \in 1..Len(features) :
     /\ features[i].rec = "object"
     /\ features[i].geometry = "Point"
     /\ features[i].coordinates.shape = "array"
     /\ features[i].coordinates.lat.k = "finite"
     /\ features[i].coordinates.lng.k = "finite"}

\* points holds one point for each of these records, in their order
OnePointEach(points, features, valid) ==
  /\ Len(points) = Cardinality(valid)
  /\ \A i \in valid :
       LET k == Cardinality({j \in valid : j <= i})
       IN  /\ points[k].id = PointId(i - 1)
           /\ points[k].lat = features[i].coordinates.lat
           /\ points[k].lng = features[i].coordinates.lng

\* a response that is a feature collection
IsCollection(r) == r.reached /\ r.ok /\ r.json = "features"

\* the failures of a load that the fetch or the document causes
ListedFailures == {Unreachable, BadStatus, HtmlBody, NoFeatures}

----------------------------------------------------------------------------
(* Properties *)

\* C11 as stated: every non-empty cellId that updateUrlState wrote is read back
\* unchanged by parseUrlState.
C11_EveryCellIdReadBack ==
  (lastOp = "parseUrlState" /\ arg.cellId.has /\ arg.cellId.s # <<>>)
    => parsed.cellId = arg.cellId

\* C11, amended: a cellId that is not blank is read back trimmed (unchanged
\* when it has no surrounding blanks), and updateUrlState with the empty
\* cellId removes every id parameter and changes nothing else in the URL
\* (C11_CellIdRoundTrip, the conjunction of the next two).
C11_ReadBackTrimmed ==
  (lastOp' = "parseUrlState" /\ arg'.cellId.has /\ Trim(arg'.cellId.s) # <<>>)
    => /\ parsed'.cellId = Str(Trim(arg'.cellId.s))
       /\ (Trim(arg'.cellId.s) = arg'.cellId.s => parsed'.cellId = arg'.cellId)

C11_EmptyRemoves ==
  (lastOp' = "updateUrlState" /\ arg'.cellId = Str(<<>>) /\ arg'.zoom = Undefined)
    => /\ IdsOf(search') = <<>>
       /\ search' = OthersOf(search)
       /\ hash' = hash

C11_CellIdRoundTrip == [][C11_ReadBackTrimmed /\ C11_EmptyRemoves]_vars

\* a cellId with a leading blank was written and read back trimmed
C11_Witness ==
  /\ lastOp = "parseUrlState"
  /\ arg.cellId = Str(<<" ", "A">>)
  /\ parsed.cellId = Str(<<"A">>)
  /\ OthersOf(search) # <<>>

\* C12: searchAndFlyTo compares cell ids ignoring case and flies to the first
\* point in index order that equals the query, the earliest of duplicates; when
\* no point equals the query it returns false and the viewport stays.
C12_ExactLookup ==
  [][lastOp' = "searchAndFlyTo"
       => LET hits == ExactHits(surveyPoints, query')
          IN  IF hits = {}
              THEN found' = "false" /\ view' = view
              ELSE /\ found' = "true"
                   /\ \E i \in hits :
                        /\ \A j \in hits : i <= j
                        /\ view'.by = "flyTo"
                        /\ view'.lat = surveyPoints[i].lat
                        /\ view'.lng = surveyPoints[i].lng]_vars

\* the query a23 found the first of the points A23, a23, A23
C12_Witness ==
  /\ lastOp = "searchAndFlyTo"
  /\ query = a23
  /\ Cardinality(ExactHits(surveyPoints, query)) = 3
  /\ found = "true"
  /\ view.by = "flyTo"
  /\ view.lat = Whole(2)

\* C13 as stated: for every query that is not empty, getSuggestions returns
\* the cell ids of the points that contain the query, in ascending order.
C13_EveryNonEmptyQuery ==
  (lastOp = "getSuggestions" /\ query # <<>>)
    => ListsHits(suggested, surveyPoints, SuggestionHits(surveyPoints, query))

\* C13, amended: for every query that is not blank, getSuggestions returns
\* exactly the cell ids of the points whose cell id (or display name, where
\* the point has one) contains the query ignoring case, duplicates included,
\* in lexicographic ascending order; B2, A23, A1 and the query a give A1, A23.
C13_Suggestions ==
  /\ (lastOp = "getSuggestions" /\ Trim(query) # <<>>)
       => ListsHits(suggested, surveyPoints, SuggestionHits(surveyPoints, query))
  /\ (lastOp = "getSuggestions" /\ query = <<"a">> /\ cellIds(surveyPoints) = <<B2, A23, A1>>)
       => suggested = <<A1, A23>>

\* the example: B2, A23, A1 and the query a
C13_Witness ==
  /\ lastOp = "getSuggestions"
  /\ query = <<"a">>
  /\ cellIds(surveyPoints) = <<B2, A23, A1>>
  /\ suggested = <<A1, A23>>

\* C14: the search box keeps at most five suggestions, the first five of the
\* matches of the trimmed value in ascending order, and none for a value that
\* is empty or blank.
C14_Truncated ==
  lastOp = "handleInputChange"
    => LET q == Trim(searchQuery)
           hits == SuggestionHits(surveyPoints, q)
           listed(c) == Occurrences(suggestions, c)
           hit(c) == Cardinality({j \in hits : surveyPoints[j].cell_id = c})
       IN  IF q = <<>> THEN suggestions = <<>>
           ELSE /\ Len(suggestions) <= SuggestionLimit
                /\ Len(suggestions) = IF Cardinality(hits) < 5 THEN Cardinality(hits) ELSE 5
                /\ Ascending(suggestions)
                /\ \A k \in 1..Len(suggestions) : listed(suggestions[k]) <= hit(suggestions[k])
                /\ \A j \in hits :
                     listed(surveyPoints[j].cell_id) < hit(surveyPoints[j].cell_id)
                       => LexLeq(suggestions[Len(suggestions)], surveyPoints[j].cell_id)

\* eight points match the value and five are suggested
C14_Witness ==
  /\ lastOp = "handleInputChange"
  /\ Cardinality(SuggestionHits(surveyPoints, Trim(searchQuery))) = 8
  /\ suggestions = <<A1, <<"A", "3">>, <<"A", "3">>, <<"A", "5">>, <<"A", "7">>>>

\* the frame of a submit that does not search
C15_NoOp ==
  /\ isSearching' = FALSE
  /\ ~pendingSearch'.active
  /\ searchError' = searchError
  /\ hash' = hash
  /\ search' = search
  /\ view' = view

\* C15 as stated: a search with a query that is blank returns false, never
\* enters the searching state, raises no not-found condition and leaves the
\* URL and the viewport unchanged.
C15_BlankReturnsFalse ==
  [][(lastOp' = "handleSubmit" /\ Trim(searchQuery) = <<>>)
       => searchRet' = "false" /\ C15_NoOp]_vars

\* C15, amended: a submit with a query that is blank returns without calling
\* the search handler and without a result; isSearching stays false, no
\* not-found condition is raised, the URL and the viewport are unchanged.
C15_BlankSubmit ==
  [][(lastOp' = "handleSubmit" /\ Trim(searchQuery) = <<>>)
       => searchRet' = "undefined" /\ C15_NoOp]_vars

\* a blank query was submitted while an id was in the URL
C15_Witness ==
  /\ lastOp = "handleSubmit"
  /\ searchQuery = <<" ">>
  /\ searchRet = "undefined"
  /\ IdsOf(search) # <<>>

\* C16: a search for a query that no point of the dataset equals returns
\* false, sets a not-found message that holds the query, does not move the
\* viewport and leaves the URL as it was.
C16_NotFound ==
  [][/\ (pendingSearch'.active /\ ExactHits(surveyPoints, Trim(pendingSearch'.cellId)) = {})
          => view' = view /\ search' = search /\ hash' = hash
     /\ (lastOp' = "handleSearchById" /\ ExactHits(surveyPoints, Trim(pendingSearch'.cellId)) = {})
          => /\ searchRet' = "false"
             /\ searchError'.has
             /\ IncludesString(searchError'.s, pendingSearch'.cellId)
             /\ view' = view
             /\ search' = search
             /\ hash' = hash]_vars

\* Z99 was searched while the URL held an id, and was not found
C16_Witness ==
  /\ lastOp = "handleSearchById"
  /\ pendingSearch.cellId = Z99
  /\ searchRet = "false"
  /\ searchError = notFoundMessage(Z99)
  /\ IdsOf(search) # <<>>

\* C17: a search for a query that equals the cell id of a point ignoring case
\* returns true, and parseUrlState then reads the cell id of the point found
\* from the URL.
C17_FoundCellId ==
  LET hits == ExactHits(surveyPoints, pendingSearch.cellId)
      first == CHOOSE i \in hits : \A j \in hits : i <= j
  IN  /\ (lastOp = "handleSearchById" /\ hits # {}) => searchRet = "true"
      /\ (lastOp = "parseUrlState" /\ pendingSearch.found /\ hits # {})
           => parsed.cellId = Str(surveyPoints[first].cell_id)

\* C18: the point set is empty or the result of one single completed load,
\* whatever loads are in flight and in whatever order loads complete; a load
\* that completes replaces the points held.
C18_WholeReplacement ==
  /\ \/ surveyPoints = <<>>
     \/ \E r \in LoadResponses :
          /\ loadGeoJSONData(build, r).ok
          /\ surveyPoints = loadGeoJSONData(build, r).points
  /\ lastOp = "loadSucceeded" => surveyPoints = loadGeoJSONData(build, response).points

\* a load replaced the points of another load while a third was in flight
C18_Witness ==
  /\ lastOp = "loadSucceeded"
  /\ loading = 1
  /\ previous # <<>>
  /\ surveyPoints # <<>>
  /\ surveyPoints[1].cell_id # previous[1].cell_id

\* C19: a load that fails because the fetch is unreachable, the status is not
\* a success, the body is HTML or the document has no features array ends with
\* loadError set to a message, isLoading false and the points held unchanged.
C19_FailureSurfaced ==
  [][(lastOp' \in {"loadSucceeded", "loadFailed"} /\ response' \in ListedFailures)
       => /\ lastOp' = "loadFailed"
          /\ loadError'.has
          /\ loadError'.s # ""
          /\ isLoading' = FALSE
          /\ surveyPoints' = surveyPoints]_vars

\* a page of HTML came while points were held
C19_Witness ==
  /\ lastOp = "loadFailed"
  /\ response = HtmlBody
  /\ surveyPoints # <<>>
  /\ loadError.has
  /\ ~isLoading

\* C20: the load of a feature collection succeeds and holds exactly one point
\* for each record with Point geometry and two finite numeric coordinates, in
\* source order; every other record is dropped without failing the load.
C20_RecordsSkipped ==
  (lastOp \in {"loadSucceeded", "loadFailed"} /\ IsCollection(response))
    => /\ lastOp = "loadSucceeded"
       /\ OnePointEach(surveyPoints, response.features, ValidRecords(response.features))

\* C1: a position in the domain of ViewState that updateUrlState wrote is read
\* back by parseUrlState with the same zoom and with lat and lng within 1e-5.
C1_RoundTrip ==
  (lastOp = "parseUrlState" /\ source.kind = "update" /\ InViewDomain(source))
    => /\ parsed.zoom = source.zoom
       /\ Within1e5(parsed.lat, source.lat)
       /\ Within1e5(parsed.lng, source.lng)

\* a written position whose latitude is quantized has been read back
C1_Witness ==
  /\ lastOp = "parseUrlState" /\ source.kind = "update" /\ InViewDomain(source)
  /\ source.lat = Dec(-5, 6)
  /\ parsed.lat # source.lat

\* C2: the legacy example and the compact example decode to the documented
\* views, and the legacy link of a view decodes to the same zoom, lat and lng
\* as the compact fragment of that view.
C2_BothGrammars ==
  lastOp = "parseUrlState" =>
    /\ hash = LegacyExample =>
         /\ parsed.zoom = Whole(15)
         /\ parsed.lat = Dec(407128, 4)
         /\ parsed.lng = Dec(-74006, 3)
    /\ hash = CompactExample =>
         /\ parsed.zoom = Whole(16)
         /\ parsed.lat = Dec(407128, 4)
         /\ parsed.lng = Dec(-74006, 3)
    /\ source.kind = "legacy" =>
         LET compact == parsePosition(updateHash(<<>>, source))
         IN  /\ parsed.zoom = compact.zoom
             /\ parsed.lat = compact.lat
             /\ parsed.lng = compact.lng

\* C3: a fragment in neither grammar, or with a number of parts other than
\* three, gives a state without zoom, lat and lng.
C3_Malformed ==
  (lastOp = "parseUrlState" /\ Len(GrammarParts(hash)) # 3) => HasNoPosition(parsed)

\* a fragment with the map_ prefix and the wrong number of parts has been parsed
C3_Witness ==
  /\ lastOp = "parseUrlState"
  /\ StartsWith(hash, MAP_)
  /\ Len(GrammarParts(hash)) \notin {0, 3}
  /\ HasNoPosition(parsed)

\* C4: a three-part fragment with a part that is not a finite numeric literal
\* gives a state without zoom, lat and lng.
C4_AllPartsFinite ==
  (/\ lastOp = "parseUrlState"
   /\ Len(GrammarParts(hash)) = 3
   /\ \E i \in 1..3 : ~IsFiniteLiteral(GrammarParts(hash)[i]))
    => HasNoPosition(parsed)

C6_MergeUpdate ==
  [][lastOp' = "updateUrlState" =>
       /\ (arg'.zoom = Undefined \/ arg'.lat = Undefined \/ arg'.lng = Undefined)
            => hash' = hash
       /\ ~arg'.cellId.has => IdsOf(search') = IdsOf(search)]_vars

\* a position was written without cellId while the query holds an id
C6_Witness ==
  /\ lastOp = "updateUrlState"
  /\ FullPosition(arg)
  /\ ~arg.cellId.has
  /\ IdsOf(search) # <<>>

\* C7: the share URL is the same for every address bar, its query holds id
\* alone and only for a non-empty cellId, and for a ViewState its fragment
\* is the compact form of the state's zoom, lat and lng.
C7_ShareIndependent ==
  lastOp = "getShareableUrl" =>
    /\ \A h \in SampleFragments, q \in MixedQueries :
         getShareableUrl(h, q, arg) = shared
    /\ shared.search =
         IF arg.cellId.has /\ arg.cellId.s # <<>>
         THEN <<Param("id", arg.cellId.s)>> ELSE <<>>
    /\ InViewDomain(arg) => IsCompactFormOf(shared.hash, arg)

\* a share URL was built while the address bar held another id, a foreign
\* parameter and a fragment
C7_Witness ==
  /\ lastOp = "getShareableUrl"
  /\ InViewDomain(arg)
  /\ OthersOf(search) # <<>>
  /\ IdsOf(search) # <<>>
  /\ hash # <<>>
  /\ shared.hash # hash

\* C8: the fragment of the share URL is the fragment that updateUrlState
\* writes for the same zoom, lat and lng.
C8_ShareMatchesUpdate ==
  lastOp = "getShareableUrl" => shared.hash = updateUrlState(hash, search, arg).hash

\* C9 as stated: after clearUrlState the address bar holds neither a fragment
\* nor anything in the query.
C9_OriginPathOnly ==
  lastOp = "clearUrlState" => (hash = <<>> /\ search = <<>>)

\* C9, amended: clearUrlState empties the fragment and removes every id
\* parameter; the other query parameters stay as they were.
C9_ClearsFragmentAndId ==
  [][lastOp' = "clearUrlState" =>
       /\ hash' = <<>>
       /\ IdsOf(search') = <<>>
       /\ search' = OthersOf(search)]_vars

\* the URL was cleared and a foreign parameter is still in the query
C9_Witness ==
  /\ lastOp = "clearUrlState"
  /\ hash = <<>>
  /\ search # <<>>

\* C10: parseUrlState returns the trimmed id when the id parameter is present
\* and not empty after trimming, and no cellId otherwise.
C10_TrimmedCellId ==
  lastOp = "parseUrlState" =>
    LET ids == IdsOf(search)
    IN  IF ids # <<>> /\ Trim(ids[1].value) # <<>>
        THEN parsed.cellId = Str(Trim(ids[1].value))
        ELSE parsed.cellId = NoString


----------------------------------------------------------------------------
(* C21: zoom-gated visibility.  In every state in which the dataset has been
   loaded into a survey layer and the map stands at a zoom whose zoom event
   has been handled, the survey layer is on the map if and only if the zoom
   is at least 15. *)
C21_ZoomGated ==
  (mapReady /\ surveyLayer # 0)
    => ((surveyLayer \in shown) <=> AtLeast(view.zoom, DocumentedZoom))


----------------------------------------------------------------------------
(* C22: every search that enters Searching returns to Idle, isSearching
   false, whether the point is found, not found, or the lookup throws; and
   isSearching is true in every state in which a search is in flight. *)
C22_SearchMachine ==
  /\ [](pendingSearch.active => isSearching)
  /\ (pendingSearch.active ~> (~pendingSearch.active /\ ~isSearching))

\* a search whose lookup threw has returned to Idle with the message of the catch
C22_Witness ==
  /\ lastOp = "handleSearchById"
  /\ pendingSearch.threw
  /\ ~pendingSearch.active
  /\ ~isSearching
  /\ searchError = searchFailed


----------------------------------------------------------------------------
(* C23: each highlight self-expires.  A highlight marker on the map has the
   removal timer of its own search pending, with at most 1800 ms to go,
   whatever searches came later; once no timer of a search is pending the
   map holds no highlight marker; and every highlight marker on the map is
   eventually off the map. *)
C23_OwnTimerPending ==
  \A h \in highlights :
    \E t \in timers : t.kind = "remove" /\ t.id = h /\ t.left <= HighlightLife

C23_NoneLeft == (highlightTimers(timers) = {}) => (highlights = {})

C23_SelfExpiry ==
  /\ [](C23_OwnTimerPending /\ C23_NoneLeft)
  /\ \A h \in 1..(MaxHighlights + 1) : (h \in highlights) ~> (h \notin highlights)

\* a highlight is on the map while the timer of a later search is pending
C23_Witness ==
  \E h \in highlights : \E t \in timers : t.kind = "add" /\ t.id # h


----------------------------------------------------------------------------
(* C25: every point held after a load has a cell id that is a non-empty
   string, a finite latitude in [-90, 90] and a finite longitude in
   [-180, 180]. *)
InRange(x, lo, hi) == x.k = "finite" /\ lo * Pow10(x.e) <= x.m /\ x.m <= hi * Pow10(x.e)

C25_ValidPoints ==
  \A i \in 1..Len(surveyPoints) :
    /\ surveyPoints[i].cell_type = "string"
    /\ surveyPoints[i].cell_id # <<>>
    /\ InRange(surveyPoints[i].lat, -90, 90)
    /\ InRange(surveyPoints[i].lng, -180, 180)


----------------------------------------------------------------------------
(* C26: a cell id pending from the URL is resolved against the loaded
   dataset.  No search runs before the load of the dataset has completed;
   and when the page is opened with ?id=A23 and the example dataset (which
   holds A23) is loaded, a search for A23 is eventually performed and
   succeeds, the map arriving at the point of A23. *)
C26_DatasetLoaded == loading = 0 /\ response.reached

C26_Pending ==
  /\ mounted
  /\ parseCellId(search) = Str(A23)
  /\ response = Collection(ExampleFeatures)

C26_Arrived ==
  /\ searchRet = "true"
  /\ view.by = "flyTo"
  /\ view.lat = Whole(2)
  /\ view.lng = Whole(2)

C26_PendingResolved ==
  /\ [](pendingSearch.active => C26_DatasetLoaded)
  /\ (C26_Pending ~> C26_Arrived)


----------------------------------------------------------------------------
(* C27: the URL follows the viewport.  Once a pan or a zoom of the map has
   been handled and the page has rendered, the fragment of the URL is the
   compact encoding of the zoom and the centre that the map has, and
   currentMapState holds that zoom and centre. *)
C27_Handled == mapReady /\ ~renderDue /\ source.kind = "update"

C27_UrlFollowsViewport ==
  C27_Handled =>
    /\ hash = compactFragment(MathRound(view.zoom), scaledInt(view.lat), scaledInt(view.lng))
    /\ currentMapState = [zoom |-> view.zoom, lat |-> view.lat, lng |-> view.lng]


----------------------------------------------------------------------------
(* C28: the initial viewport comes from the URL.  When the fragment of the
   URL the page is opened with decodes to a position, then once the page has
   run its effect and rendered and the map is created, and before any move
   of the map, currentMapState and the zoom and the centre of the map are the
   decoded zoom, lat and lng. *)
C28_Decoded ==
  /\ parsePosition(hash).zoom # Undefined
  /\ parsePosition(hash).lat # Undefined
  /\ parsePosition(hash).lng # Undefined

C28_MapCreated ==
  /\ mounted
  /\ mapReady
  /\ ~renderDue
  /\ source = NoSource
  /\ view.by = "initialState"

C28_InitialFromUrl ==
  (C28_MapCreated /\ C28_Decoded) =>
    /\ currentMapState = [zoom |-> parsePosition(hash).zoom, lat |-> parsePosition(hash).lat,
                          lng |-> parsePosition(hash).lng]
    /\ view.zoom = parsePosition(hash).zoom
    /\ view.lat = parsePosition(hash).lat
    /\ view.lng = parsePosition(hash).lng


----------------------------------------------------------------------------
(* C29: no update of the URL is lost between its two writers.  In every
   order of position updates (moves of the map) and cell id updates (searches
   that find their point, clearing the search), the fragment is the encoding
   of the position written last and the id parameter is the cell id written
   last, absent when that is the empty one: a position update leaves the id
   alone, a cell id update leaves the fragment alone. *)
C29_LastWriterWins ==
  /\ source.kind = "update" =>
        hash = compactFragment(MathRound(source.zoom), scaledInt(source.lat),
                               scaledInt(source.lng))
  /\ lastCell.has =>
        Get(search, "id") = (IF lastCell.s # <<>> THEN lastCell ELSE NoString)

\* a search has written its cell id after a move has written its position
C29_Witness ==
  /\ lastOp = "handleSearchById"
  /\ searchRet = "true"
  /\ Truthy(lastCell)
  /\ source.kind = "update"


----------------------------------------------------------------------------
(* C30: a not-found message expires on its own.  Whenever searchError is
   set, it eventually becomes null again, in every execution, those in which
   the page renders while the toast is shown included. *)
C30_ToastExpires == Truthy(searchError) ~> ~Truthy(searchError)

====
